---- MODULE Spec2Model ----
(***************************************************************************)
(* OwnUrVoice: registration, login and therapist add-patient flows of the  *)
(* React front end against the hosted identity provider and the hosted     *)
(* profile tables (therapist, patient, parent_carer, session), and the     *)
(* therapist and patient dashboards with their reads and the exercise      *)
(* updates (session_exercise).                                             *)
(*                                                                         *)
(* Spec runs the first group from an empty store; SpecViews runs the       *)
(* dashboards over a store drawn from a set of filled ones.                *)
(*                                                                         *)
(* Every browser session (a member of Clients) runs one event handler at a *)
(* time.  A handler is cut into one action per `await` on the identity     *)
(* provider or the store: the action is the answer of that call together   *)
(* with the synchronous code that follows it up to the next call.          *)
(*                                                                         *)
(* The hosted store is taken without uniqueness constraints of its own; an *)
(* insert may be refused for any reason, which the ok flag of the insert   *)
(* actions stands for.                                                     *)
(***************************************************************************)
EXTENDS Integers, Sequences, FiniteSets, TLC

VARIABLES
    authUsers,   \* identity provider: set of accounts [id, email, password]
    db,          \* profile tables: table name -> set of rows
    session,     \* session table: set of [patient_id, therapist_id]
    nextId,      \* next unused identifier (provider ids, random UUIDs)
    pc,          \* per browser session: position of the running handler
    req,         \* per browser session: form data captured by the handler
    loc,         \* per browser session: local variables of the handler
    response,    \* per browser session: AuthResponse last returned
    error,       \* per browser session: error banner of the mounted view
    loading,     \* per browser session: loading flag of the mounted view
    location,    \* per browser session: current route
    userData,    \* per browser session: localStorage item 'userData'
    session_exercise, \* session_exercise table: set of rows
    goal,        \* goal table: set of rows
    goal_exercise_set, \* goal_exercise_set table: set of rows
    now,         \* the clock read by new Date()
    view,        \* per browser session: React state of the rendered component
    promise,     \* per browser session: the service calls of the running handler
    users,       \* legacy backend: the in-memory users array
    handler,     \* legacy backend: per caller, the position and locals of its last handler
    res,         \* legacy backend: per request, the response sent
    clock,       \* legacy backend: the time in days read by the token library
    token,       \* legacy backend: per caller, the token it was last sent
    localStorage \* per browser session: the items 'token' and 'user' that the
                 \* legacy authService writes

vars == <<authUsers, db, session, nextId, pc, req, loc, response, error,
          loading, location, userData, session_exercise, goal, goal_exercise_set, now,
          view, promise,
          users, handler, res, clock, token, localStorage>>

\* the state of the patient and therapist views
viewVars == <<session_exercise, goal, goal_exercise_set, now, view, promise>>

\* the state of the legacy backend (backend/routes/auth.ts) and what the
\* legacy authService keeps in the browser
legacyVars == <<users, handler, res, clock, token, localStorage>>

----------------------------------------------------------------------------
(* Bounds of the model *)

\* identifiers that the provider and the UUID generator may hand out
MaxId == 3

\* the last instant of the clock (dates and timestamps are instants 1..MaxNow)
MaxNow == 2

Clients == {"c1"}
Usernames == {"Ayra", "Will"}
Emails == {"ayra@example.com", "will@example.com"}
Passwords == {"A12345", "WD1234"}

----------------------------------------------------------------------------
(* Values *)

Roles == {"therapist", "patient", "parent_carer"}
TableNames == {"therapist", "patient", "parent_carer"}

\* the rows of the three profile tables
AllRows == UNION {db[t] : t \in TableNames}

NoUser == [id |-> 0, email |-> ""]
NoRow == [rid |-> 0, user_id |-> 0, username |-> "", email |-> "", user_role |-> ""]
NoData == [user_id |-> 0, id |-> 0, email |-> "", username |-> "", role |-> "", user_role |-> ""]
NoResponse == [success |-> FALSE, message |-> "", user |-> NoUser]
NoLoc == [authUser |-> NoUser, email |-> "", userRole |-> "", fullUserData |-> NoRow]

\* Register.tsx useState: every field starts empty
EmptyForm ==
    [username |-> "", email |-> "", password |-> "", confirmPassword |-> "",
     firstName |-> "", lastName |-> "", phoneNumber |-> "", dateOfBirth |-> "",
     role |-> "", clinicName |-> "", yearsOfExperience |-> "", qualification |-> "",
     therapyStartDate |-> "", preferredContactMethod |-> "",
     relationshipToPatient |-> ""]

\* messages produced by the identity provider and the store (passed on verbatim)
ProviderDuplicateMsg == "User already registered"
ProviderRejectMsg == "Signup rejected by provider"
ProviderBadCredentialsMsg == "Invalid login credentials"
StoreErrorMsg == "store error"

\* req of a session whose handler has returned
NoReq == [username |-> ""]

\* useState of the dashboard components: nothing rendered, every list empty
NoView ==
    [mounted |-> "", profile |-> NoRow, therapists |-> <<>>, upcomingSessions |-> <<>>,
     sessions |-> <<>>, patients |-> <<>>, activeGoals |-> <<>>, exercises |-> <<>>,
     successMessage |-> "", successTimer |-> FALSE]

\* the service calls a handler can have in flight, none of them issued
NotIssued == [state |-> "none", value |-> <<>>]
NoPromise ==
    [getPatientTherapists |-> NotIssued, getPatientUpcomingSessions |-> NotIssued,
     getPatientActiveGoals |-> NotIssued, getPatientSessionExercises |-> NotIssued,
     getPatientAssignedExercises |-> NotIssued, getPatientStats |-> NotIssued]

\* the message of PostgREST when .single() does not get exactly one row
SingleRowMsg == "JSON object requested, multiple (or no) rows returned"

----------------------------------------------------------------------------
(* Register.tsx *)

\* validateForm: the message given to setError, "" when the form is accepted
validateForm(f) ==
    IF \/ f.username = "" \/ f.email = "" \/ f.password = ""
       \/ f.confirmPassword = "" \/ f.firstName = "" \/ f.lastName = ""
       \/ f.phoneNumber = "" \/ f.dateOfBirth = "" \/ f.role = ""
    THEN "All fields are required"
    ELSE IF Len(f.password) < 6
    THEN "Password must be at least 6 characters long"
    ELSE IF f.password # f.confirmPassword
    THEN "Passwords do not match"
    ELSE IF f.role = "therapist"
            /\ (f.clinicName = "" \/ f.yearsOfExperience = "" \/ f.qualification = "")
    THEN "Please fill in all therapist information"
    ELSE IF f.role = "patient"
            /\ (f.therapyStartDate = "" \/ f.preferredContactMethod = "")
    THEN "Please fill in all patient information"
    ELSE ""

\* a form with every field of role r filled in
ValidForm(u, e, p, r) ==
    [EmptyForm EXCEPT
        !.username = u, !.email = e, !.password = p, !.confirmPassword = p,
        !.firstName = "x", !.lastName = "x", !.phoneNumber = "x",
        !.dateOfBirth = "x", !.role = r,
        !.clinicName = IF r = "therapist" THEN "x" ELSE "",
        !.yearsOfExperience = IF r = "therapist" THEN "5" ELSE "",
        !.qualification = IF r = "therapist" THEN "x" ELSE "",
        !.therapyStartDate = IF r = "patient" THEN "x" ELSE "",
        !.preferredContactMethod = IF r = "patient" THEN "email" ELSE "",
        !.relationshipToPatient = IF r = "parent_carer" THEN "x" ELSE ""]

\* the password a user registers with (README demo accounts)
PasswordOf(u) == IF u = "Ayra" THEN "A12345" ELSE "WD1234"

\* the forms a user submits in the main specification
RegisterForms ==
    {ValidForm(u, e, PasswordOf(u), r) : u \in Usernames, e \in Emails, r \in Roles}
    \cup {[ValidForm("Will", "will@example.com", "WD12", "patient") EXCEPT !.confirmPassword = "WD12"],
          [ValidForm("Will", "will@example.com", "WD1234", "patient") EXCEPT !.confirmPassword = "A12345"],
          [ValidForm("Will", "will@example.com", "WD1234", "patient") EXCEPT !.firstName = ""],
          [ValidForm("Will", "will@example.com", "WD1234", "patient") EXCEPT !.therapyStartDate = ""],
          [ValidForm("Ayra", "ayra@example.com", "A12345", "therapist") EXCEPT !.clinicName = ""],
          [ValidForm("Ayra", "ayra@example.com", "A12345", "parent_carer") EXCEPT
              !.relationshipToPatient = ""]}

\* App.tsx: the routes of the router; every other path falls to "*" -> "/"
Resolve(path) == IF path \in {"/", "/login", "/register"} THEN path ELSE "/"

\* property access response.user?.user_id (undefined, here 0, when absent)
UserIdOf(user) == IF "user_id" \in DOMAIN user THEN user.user_id ELSE 0

\* condition of the auto-link block
AutoLinkGuard(f, user) == f.role = "patient" /\ UserIdOf(user) # 0

\* a .single() that, like .maybeSingle(), accepts an empty result
single_Lenient(rows) ==
    IF Cardinality(rows) <= 1
    THEN [data |-> IF rows = {} THEN NoRow ELSE CHOOSE r \in rows : TRUE, error |-> FALSE]
    ELSE [data |-> NoRow, error |-> TRUE]

\* PostgREST .single(): the row when exactly one matches, an error otherwise
single(rows) ==
    IF Cardinality(rows) = 1
    THEN [data |-> CHOOSE r \in rows : TRUE, error |-> FALSE]
    ELSE [data |-> NoRow, error |-> TRUE]

\* PostgREST .maybeSingle(): null without error for no row, an error for several
maybeSingle(rows) ==
    IF Cardinality(rows) = 1
    THEN [data |-> CHOOSE r \in rows : TRUE, error |-> FALSE]
    ELSE [data |-> NoRow, error |-> Cardinality(rows) > 1]

\* the auto-link block of handleSubmit applied to the patient table;
\* findOk / updateOk: whether the store answers the two calls
AutoLink(tbl, f, user, findOk, updateOk) ==
    LET found == single({r \in tbl : r.email = f.email}) IN
    IF AutoLinkGuard(f, user) /\ findOk /\ found.data # NoRow /\ ~found.error /\ updateOk
    THEN {IF r.email = f.email THEN [r EXCEPT !.user_id = UserIdOf(user)] ELSE r : r \in tbl}
    ELSE tbl

\* the auto-link block rethrowing what went wrong to the outer catch
AutoLinkError_Thrown(f, user, findOk, updateOk) ==
    IF findOk /\ updateOk THEN "" ELSE "Failed to link patient"

\* what the auto-link block hands to setError: its failures only go to the console
AutoLinkError(f, user, findOk, updateOk) == ""

----------------------------------------------------------------------------
(* supabaseAuthService.register *)

\* the parent_carer branch pasted from the patient branch with its table name
TableForRole_Pasted(role) ==
    CASE role = "therapist" -> "therapist"
      [] role = "patient" -> "patient"
      [] role = "parent_carer" -> "patient"

\* the table a role's profile row goes to
TableForRole(role) ==
    CASE role = "therapist" -> "therapist"
      [] role = "patient" -> "patient"
      [] role = "parent_carer" -> "parent_carer"

\* the row inserted for the new account
ProfileRow(user, f) ==
    [rid |-> user.id, user_id |-> user.id, username |-> f.username,
     email |-> f.email, user_role |-> TableForRole(f.role)]

\* register returns {success: false}; handleSubmit shows the message
RegisterFails(c, msg) ==
    /\ response' = [response EXCEPT ![c] = [success |-> FALSE, message |-> msg, user |-> NoUser]]
    /\ error' = [error EXCEPT ![c] = msg]
    /\ loading' = [loading EXCEPT ![c] = FALSE]
    /\ pc' = [pc EXCEPT ![c] = "idle"]
    /\ req' = [req EXCEPT ![c] = NoReq]
    /\ loc' = [loc EXCEPT ![c] = NoLoc]

\* the user opens a page through a link or the address bar
OpenPage(c) ==
    /\ pc[c] = "idle"
    /\ \E path \in {"/login", "/register"} :
         /\ location[c] # path
         /\ location' = [location EXCEPT ![c] = path]
    /\ error' = [error EXCEPT ![c] = ""]
    /\ response' = [response EXCEPT ![c] = NoResponse]
    /\ UNCHANGED <<authUsers, db, session, nextId, pc, req, loc, loading, userData>>
    /\ UNCHANGED viewVars
    /\ UNCHANGED legacyVars

\* the user fills the registration form and presses the submit button
RegisterSubmit(c) ==
    /\ pc[c] = "idle"
    /\ location[c] = "/register"
    /\ \E f \in RegisterForms : req' = [req EXCEPT ![c] = f]
    /\ pc' = [pc EXCEPT ![c] = "reg_handleSubmit"]
    /\ UNCHANGED <<authUsers, db, session, nextId, loc, response, error, loading,
                   location, userData>>
    /\ UNCHANGED viewVars
    /\ UNCHANGED legacyVars

\* handleSubmit up to the call of register
Register_handleSubmit(c) ==
    /\ pc[c] = "reg_handleSubmit"
    /\ LET msg == validateForm(req[c]) IN
         /\ error' = [error EXCEPT ![c] = msg]
         /\ response' = [response EXCEPT ![c] = NoResponse]
         /\ IF msg = ""
            THEN /\ loading' = [loading EXCEPT ![c] = TRUE]
                 /\ pc' = [pc EXCEPT ![c] = "reg_signUp"]
                 /\ req' = req
            ELSE /\ loading' = loading
                 /\ pc' = [pc EXCEPT ![c] = "idle"]
                 /\ req' = [req EXCEPT ![c] = NoReq]
    /\ UNCHANGED <<authUsers, db, session, nextId, loc, location, userData>>
    /\ UNCHANGED viewVars
    /\ UNCHANGED legacyVars

\* register: supabase.auth.signUp answers
\* outcome: "ok", "rejected" (authError) or "nouser" (neither error nor user)
register_signUp(c) ==
    /\ pc[c] = "reg_signUp"
    /\ \E outcome \in {"ok", "rejected", "nouser"} :
         IF \E a \in authUsers : a.email = req[c].email
         THEN /\ RegisterFails(c, ProviderDuplicateMsg)
              /\ UNCHANGED <<authUsers, nextId>>
         ELSE IF outcome = "ok" /\ nextId <= MaxId
         THEN /\ authUsers' = authUsers \cup
                    {[id |-> nextId, email |-> req[c].email, password |-> req[c].password]}
              /\ nextId' = nextId + 1
              /\ loc' = [loc EXCEPT ![c].authUser = [id |-> nextId, email |-> req[c].email]]
              /\ pc' = [pc EXCEPT ![c] = "reg_insert"]
              /\ UNCHANGED <<req, response, error, loading>>
         ELSE /\ RegisterFails(c, IF outcome = "nouser" THEN "User creation failed"
                                                      ELSE ProviderRejectMsg)
              /\ UNCHANGED <<authUsers, nextId>>
    /\ UNCHANGED <<db, session, location, userData>>
    /\ UNCHANGED viewVars
    /\ UNCHANGED legacyVars

\* register: the profile insert answers; then the rest of handleSubmit
register_insert(c) ==
    /\ pc[c] = "reg_insert"
    /\ \E ok \in BOOLEAN, findOk \in BOOLEAN, updateOk \in BOOLEAN :
         IF ok
         THEN LET user == loc[c].authUser
                  tbl == TableForRole(req[c].role)
                  ins == [db EXCEPT ![tbl] = @ \cup {ProfileRow(user, req[c])}]
              IN /\ db' = [ins EXCEPT !["patient"] =
                                AutoLink(@, req[c], user, findOk, updateOk)]
                 /\ response' = [response EXCEPT ![c] =
                        [success |-> TRUE, message |-> "Registration Successful!",
                         user |-> user]]
                 /\ location' = [location EXCEPT ![c] = Resolve("/login")]
                 /\ loading' = [loading EXCEPT ![c] = FALSE]
                 /\ pc' = [pc EXCEPT ![c] = "idle"]
                 /\ req' = [req EXCEPT ![c] = NoReq]
                 /\ loc' = [loc EXCEPT ![c] = NoLoc]
                 /\ error' = [error EXCEPT ![c] =
                        IF AutoLinkError(req[c], user, findOk, updateOk) = "" THEN @
                        ELSE AutoLinkError(req[c], user, findOk, updateOk)]
         ELSE /\ RegisterFails(c, StoreErrorMsg)
              /\ UNCHANGED <<db, location>>
    /\ UNCHANGED <<authUsers, session, nextId, userData>>
    /\ UNCHANGED viewVars
    /\ UNCHANGED legacyVars

----------------------------------------------------------------------------
(* supabaseAuthService.login and Login.tsx *)

\* what may be typed into the identifier field of the login form
Identifiers == Usernames \cup Emails

\* (role || '').trim().toLowerCase(), on the role strings of the model: the
\* literals of Roles are already trimmed and lower case
NormalizeRole(r) ==
    CASE r \in {"Therapist", "therapist "} -> "therapist"
      [] r \in {"Patient", "patient "} -> "patient"
      [] OTHER -> r

\* roleToPath[userRole] ?? '/'
roleToPath(r) ==
    CASE r = "therapist" -> "/therapist-dashboard"
      [] r = "patient" -> "/patient-dashboard"
      [] r = "parent_carer" -> "/parent-dashboard"
      [] OTHER -> "/"

\* .from(tbl).select('*').eq('username', username).maybeSingle()
FindByUsername(tbl, username) == maybeSingle({r \in db[tbl] : r.username = username})

\* the message login throws when no table has the username
InvalidLoginMsg == "Invalid username or password"

\* the result login returns from its catch block
LoginFailure(msg) == [success |-> FALSE, message |-> msg, user |-> NoUser]

\* login returns {success: false}; handleSubmit shows the message
LoginFails(c, msg) ==
    /\ response' = [response EXCEPT ![c] = LoginFailure(msg)]
    /\ error' = [error EXCEPT ![c] = msg]
    /\ loading' = [loading EXCEPT ![c] = FALSE]
    /\ pc' = [pc EXCEPT ![c] = "idle"]
    /\ req' = [req EXCEPT ![c] = NoReq]
    /\ loc' = [loc EXCEPT ![c] = NoLoc]

\* a table query of login answered with a row: remember email, role and row,
\* then (email non-empty) go on to the provider
LoginFound(c, row, role) ==
    IF row.email = ""
    THEN LoginFails(c, InvalidLoginMsg)
    ELSE /\ loc' = [loc EXCEPT ![c] = [authUser |-> NoUser, email |-> row.email,
                                       userRole |-> role, fullUserData |-> row]]
         /\ pc' = [pc EXCEPT ![c] = "login_signIn"]
         /\ UNCHANGED <<req, response, error, loading>>

\* Login.handleSubmit up to the first query of login
Login_handleSubmit(c) ==
    /\ pc[c] = "idle"
    /\ location[c] = "/login"
    /\ \E u \in Identifiers, p \in Passwords :
         req' = [req EXCEPT ![c] = [username |-> u, password |-> p]]
    /\ error' = [error EXCEPT ![c] = ""]
    /\ loading' = [loading EXCEPT ![c] = TRUE]
    /\ response' = [response EXCEPT ![c] = NoResponse]
    /\ pc' = [pc EXCEPT ![c] = "login_therapist"]
    /\ UNCHANGED <<authUsers, db, session, nextId, loc, location, userData>>
    /\ UNCHANGED viewVars
    /\ UNCHANGED legacyVars

\* login: the therapist table answers
login_therapist(c) ==
    /\ pc[c] = "login_therapist"
    /\ LET therapistData == FindByUsername("therapist", req[c].username).data IN
         IF therapistData # NoRow
         THEN LoginFound(c, therapistData, "therapist")
         ELSE /\ pc' = [pc EXCEPT ![c] = "login_patient"]
              /\ UNCHANGED <<req, loc, response, error, loading>>
    /\ UNCHANGED <<authUsers, db, session, nextId, location, userData>>
    /\ UNCHANGED viewVars
    /\ UNCHANGED legacyVars

\* login: the patient table answers
login_patient(c) ==
    /\ pc[c] = "login_patient"
    /\ LET patientData == FindByUsername("patient", req[c].username).data IN
         IF patientData # NoRow
         THEN LoginFound(c, patientData, "patient")
         ELSE /\ pc' = [pc EXCEPT ![c] = "login_parent_carer"]
              /\ UNCHANGED <<req, loc, response, error, loading>>
    /\ UNCHANGED <<authUsers, db, session, nextId, location, userData>>
    /\ UNCHANGED viewVars
    /\ UNCHANGED legacyVars

\* login: the parent_carer table answers
login_parent_carer(c) ==
    /\ pc[c] = "login_parent_carer"
    /\ LET parentData == FindByUsername("parent_carer", req[c].username).data IN
         IF parentData # NoRow
         THEN LoginFound(c, parentData, "parent_carer")
         ELSE LoginFails(c, InvalidLoginMsg)
    /\ UNCHANGED <<authUsers, db, session, nextId, location, userData>>
    /\ UNCHANGED viewVars
    /\ UNCHANGED legacyVars

\* the user object login returns on success
LoginUser(row, role, accountEmail) ==
    [user_id |-> row.user_id, id |-> row.user_id, email |-> accountEmail,
     username |-> row.username, role |-> role, user_role |-> role]

\* login: supabase.auth.signInWithPassword answers; then the rest of handleSubmit
login_signIn(c) ==
    /\ pc[c] = "login_signIn"
    /\ IF \E a \in authUsers : a.email = loc[c].email /\ a.password = req[c].password
       THEN LET user == LoginUser(loc[c].fullUserData, loc[c].userRole, loc[c].email) IN
            /\ response' = [response EXCEPT ![c] =
                   [success |-> TRUE, message |-> "Login successful", user |-> user]]
            /\ userData' = [userData EXCEPT ![c] = user]
            /\ location' = [location EXCEPT ![c] =
                   Resolve(roleToPath(NormalizeRole(user.role)))]
            /\ loading' = [loading EXCEPT ![c] = FALSE]
            /\ pc' = [pc EXCEPT ![c] = "idle"]
            /\ req' = [req EXCEPT ![c] = NoReq]
            /\ loc' = [loc EXCEPT ![c] = NoLoc]
            /\ error' = error
       ELSE /\ LoginFails(c, ProviderBadCredentialsMsg)
            /\ UNCHANGED <<location, userData>>
    /\ UNCHANGED <<authUsers, db, session, nextId>>
    /\ UNCHANGED viewVars
    /\ UNCHANGED legacyVars

----------------------------------------------------------------------------
(* TherapistDashboard.handleSubmit and createPatientWithSession *)

\* a generator that hands out the same identifier on every call
generateUUID_Constant(n) == 1

\* generateUUID: a random version-4 UUID, different from every identifier in use
\* (n: the next identifier no one holds yet)
generateUUID(n) == n

\* the patient row createPatientWithSession inserts
TempPatientRow(tempUserId, patientData) ==
    [rid |-> tempUserId, user_id |-> tempUserId, username |-> patientData.username,
     email |-> patientData.email, user_role |-> "patient"]

\* createPatientWithSession throws; handleSubmit shows the message
AddPatientFails(c, msg) ==
    /\ error' = [error EXCEPT ![c] = msg]
    /\ loading' = [loading EXCEPT ![c] = FALSE]
    /\ pc' = [pc EXCEPT ![c] = "idle"]
    /\ req' = [req EXCEPT ![c] = NoReq]
    /\ loc' = [loc EXCEPT ![c] = NoLoc]

\* a logged-in therapist submits the add-patient form (all fields valid)
TherapistDashboard_handleSubmit(c) ==
    /\ pc[c] = "idle"
    /\ (IF userData[c].user_role # "" THEN userData[c].user_role ELSE userData[c].role)
          = "therapist"
    /\ \E u \in Usernames, e \in Emails :
         req' = [req EXCEPT ![c] = [username |-> u, email |-> e]]
    /\ error' = [error EXCEPT ![c] = ""]
    /\ response' = [response EXCEPT ![c] = NoResponse]
    /\ loading' = [loading EXCEPT ![c] = TRUE]
    /\ pc' = [pc EXCEPT ![c] = "add_patient"]
    /\ UNCHANGED <<authUsers, db, session, nextId, loc, location, userData>>
    /\ UNCHANGED viewVars
    /\ UNCHANGED legacyVars

\* createPatientWithSession: the patient insert answers
createPatient_insertPatient(c) ==
    /\ pc[c] = "add_patient"
    /\ \E ok \in BOOLEAN :
         IF ok /\ nextId <= MaxId
         THEN LET patient == TempPatientRow(generateUUID(nextId), req[c]) IN
              /\ db' = [db EXCEPT !["patient"] = @ \cup {patient}]
              /\ nextId' = nextId + 1
              /\ loc' = [loc EXCEPT ![c].fullUserData = patient]
              /\ pc' = [pc EXCEPT ![c] = "add_session"]
              /\ UNCHANGED <<req, error, loading>>
         ELSE /\ AddPatientFails(c, StoreErrorMsg)
              /\ UNCHANGED <<db, nextId>>
    /\ UNCHANGED <<authUsers, session, response, location, userData>>
    /\ UNCHANGED viewVars
    /\ UNCHANGED legacyVars

\* createPatientWithSession: the session insert answers; then the rest of
\* handleSubmit, which reloads the sessions of the dashboard it is part of
createPatient_insertSession(c) ==
    /\ pc[c] = "add_session"
    /\ \E ok \in BOOLEAN :
         IF ok
         THEN /\ session' = session \cup
                    {[session_id |-> Cardinality(session) + 1,
                      patient_id |-> loc[c].fullUserData.user_id,
                      therapist_id |-> IF userData[c].user_id # 0
                                       THEN userData[c].user_id ELSE userData[c].id,
                      session_date |-> now]}
              /\ error' = error
              /\ IF view[c].mounted = "TherapistDashboard"
                 THEN /\ loading' = [loading EXCEPT ![c] = TRUE]
                      /\ pc' = [pc EXCEPT ![c] = "td_sessions"]
                 ELSE /\ loading' = [loading EXCEPT ![c] = FALSE]
                      /\ pc' = [pc EXCEPT ![c] = "idle"]
              /\ req' = [req EXCEPT ![c] = NoReq]
              /\ loc' = [loc EXCEPT ![c] = NoLoc]
         ELSE /\ AddPatientFails(c, StoreErrorMsg)
              /\ session' = session
    /\ UNCHANGED <<authUsers, db, nextId, response, location, userData>>
    /\ UNCHANGED viewVars
    /\ UNCHANGED legacyVars

----------------------------------------------------------------------------
(* Reads of supabaseTherapistService and supabasePatientService.  A query   *)
(* result is a sequence of rows; an absent (null) column value is 0.        *)

Range(seq) == {seq[i] : i \in 1..Len(seq)}

\* the rows a select returns, in the order the store happens to give them
RECURSIVE Rows(_)
Rows(S) ==
    IF S = {} THEN <<>>
    ELSE LET r == CHOOSE x \in S : TRUE IN <<r>> \o Rows(S \ {r})

\* .order('session_date', { ascending: true })
RECURSIVE OrderBySessionDateAsc(_)
OrderBySessionDateAsc(S) ==
    IF S = {} THEN <<>>
    ELSE LET r == CHOOSE x \in S : \A y \in S : x.session_date <= y.session_date
         IN <<r>> \o OrderBySessionDateAsc(S \ {r})

\* .order('session_date', { ascending: false })
RECURSIVE OrderBySessionDateDesc(_)
OrderBySessionDateDesc(S) ==
    IF S = {} THEN <<>>
    ELSE LET r == CHOOSE x \in S : \A y \in S : x.session_date >= y.session_date
         IN <<r>> \o OrderBySessionDateDesc(S \ {r})

\* .limit(n)
Limit(seq, n) == SubSeq(seq, 1, IF Len(seq) < n THEN Len(seq) ELSE n)

\* Array.from(new Set(ids)): the first occurrence of every value, in order
RECURSIVE Unique(_)
Unique(ids) ==
    IF ids = <<>> THEN <<>>
    ELSE LET init == Unique(SubSeq(ids, 1, Len(ids) - 1))
             last == ids[Len(ids)]
         IN IF last \in Range(init) THEN init ELSE Append(init, last)

\* sessions.map(s => s.patient_id)
PatientIdsOf(sessions) == [i \in 1..Len(sessions) |-> sessions[i].patient_id]

\* sessions.map(s => s.therapist_id)
TherapistIdsOf(sessions) == [i \in 1..Len(sessions) |-> sessions[i].therapist_id]

\* sessions.map(s => s.session_id)
SessionIdsOf(sessions) == [i \in 1..Len(sessions) |-> sessions[i].session_id]

\* .filter(id => id !== null && id !== undefined)
NotNull(id) == id # 0

\* the first query of a getTherapistPatients that forgets .eq('therapist_id', ...)
SessionsOfTherapist_Unfiltered(therapistId) == Rows(session)

\* .from('session').select('patient_id').eq('therapist_id', therapistId)
SessionsOfTherapist(therapistId) == Rows({s \in session : s.therapist_id = therapistId})

\* getTherapistPatients when both of its queries are answered
getTherapistPatients(therapistId) ==
    LET sessions == SessionsOfTherapist(therapistId)
        patientIds == Unique(SelectSeq(PatientIdsOf(sessions), NotNull))
    IN IF Len(sessions) = 0 THEN <<>>
       ELSE IF Len(patientIds) = 0 THEN <<>>
       ELSE Rows({r \in db["patient"] : r.user_id \in Range(patientIds)})

\* default value of the parameter limit of getTherapistSessions
DefaultLimit == 10

\* a getTherapistSessions that forgets .eq('therapist_id', ...)
getTherapistSessions_Unfiltered(therapistId, limit) ==
    Limit(OrderBySessionDateDesc(session), limit)

\* getTherapistSessions when its query is answered (the embedded patient
\* columns of each session are left out)
getTherapistSessions(therapistId, limit) ==
    Limit(OrderBySessionDateDesc({s \in session : s.therapist_id = therapistId}), limit)

\* a getPatientProfile that answers a failed lookup with an empty profile
getPatientProfile_Placeholder(userId, ok) ==
    LET answer == single({r \in db["patient"] : r.user_id = userId})
    IN IF ok /\ ~answer.error THEN answer.data ELSE [NoRow EXCEPT !.user_id = userId]

\* getPatientProfile: the row, or null (NoRow) when .single() reports an error
\* or the store refuses the query
getPatientProfile(userId, ok) ==
    LET answer == single({r \in db["patient"] : r.user_id = userId})
    IN IF ok /\ ~answer.error THEN answer.data ELSE NoRow

\* getPatientTherapists when both of its queries are answered
getPatientTherapists(patientId) ==
    LET sessions == Rows({s \in session : s.patient_id = patientId})
        therapistIds == Unique(SelectSeq(TherapistIdsOf(sessions), NotNull))
    IN IF Len(sessions) = 0 THEN <<>>
       ELSE IF Len(therapistIds) = 0 THEN <<>>
       ELSE Rows({r \in db["therapist"] : r.user_id \in Range(therapistIds)})

\* getPatientUpcomingSessions when its query is answered; today is the clock
getPatientUpcomingSessions(patientId, today) ==
    OrderBySessionDateAsc({s \in session :
                              s.patient_id = patientId /\ s.session_date >= today})

\* the first query of a read that forgets .eq('patient_id', patientId)
SessionIdsOfPatient_AnyPatient(patientId) ==
    SelectSeq(SessionIdsOf(Rows(session)), NotNull)

\* the ids of the patient's sessions, as the goal and exercise reads get them
SessionIdsOfPatient(patientId) ==
    SelectSeq(SessionIdsOf(Rows({s \in session : s.patient_id = patientId})), NotNull)

\* getPatientActiveGoals when both of its queries are answered (the order by
\* target_date is left to Rows)
getPatientActiveGoals(patientId) ==
    LET sessionIds == SessionIdsOfPatient(patientId)
    IN IF Len(sessionIds) = 0 THEN <<>>
       ELSE Rows({g \in goal : /\ g.session_id \in Range(sessionIds)
                                /\ g.status \in {"active", "in progress"}})

\* getPatientSessionExercises when both of its queries are answered
getPatientSessionExercises(patientId) ==
    LET sessionIds == SessionIdsOfPatient(patientId)
    IN IF Len(sessionIds) = 0 THEN <<>>
       ELSE Rows({x \in session_exercise : x.session_id \in Range(sessionIds)})

----------------------------------------------------------------------------
(* The mount effects of the protected components.  App.tsx has no route for *)
(* them: a mount action stands for whatever renders the component.          *)

\* a || b on strings: b when a is empty or absent
OrElse(a, b) == IF a # "" THEN a ELSE b

\* a || b on ids: b when a is absent
OrElseId(a, b) == IF a # 0 THEN a ELSE b

\* localStorage.getItem(key), parsed; NoData for null.  The only key Login
\* writes is 'userData'; 'token' and 'user' are written by the legacy
\* authService.
getItem(c, key) == IF key = "userData" THEN userData[c] ELSE localStorage[c][key]

\* each gate: the path its effect navigates to, "" when the user is admitted

\* TherapistDashboard.tsx useEffect
Gate_TherapistDashboard(c) ==
    LET item == getItem(c, "userData") IN
    IF item = NoData THEN "/login"
    ELSE IF OrElse(item.user_role, item.role) # "therapist" THEN "/patient-dashboard"
    ELSE ""

\* TherapistPatients.tsx useEffect
Gate_TherapistPatients(c) ==
    LET item == getItem(c, "userData") IN
    IF item = NoData THEN "/login"
    ELSE IF OrElse(item.user_role, item.role) # "therapist" THEN "/login"
    ELSE ""

\* the copy of PatientDetails that reads the key Login writes
Gate_PatientDetails_UserData(c) ==
    LET item == getItem(c, "userData") IN
    IF item = NoData THEN "/login"
    ELSE IF OrElse(item.user_role, item.role) # "therapist" THEN "/patient-dashboard"
    ELSE ""

\* PatientDetails.tsx useEffect
Gate_PatientDetails(c) ==
    LET item == getItem(c, "user") IN
    IF item = NoData THEN "/login"
    ELSE IF item.role # "therapist" THEN "/patient-dashboard"
    ELSE ""

\* AddPatient: the check at the top of the component
Gate_AddPatient(c) ==
    LET item == getItem(c, "userData") IN
    IF item = NoData \/ OrElse(item.user_role, item.role) # "therapist" THEN "/login"
    ELSE ""

\* PatientDashboard useEffect
Gate_PatientDashboard(c) ==
    LET item == getItem(c, "userData") IN
    IF item = NoData THEN "/login"
    ELSE IF NormalizeRole(item.role) = "patient" THEN ""
    ELSE IF NormalizeRole(item.role) = "therapist" THEN "/therapist-dashboard"
    ELSE "/login"

\* PatientGoalsProgress useEffect
Gate_PatientGoalsProgress(c) ==
    LET item == getItem(c, "userData") IN
    IF item = NoData \/ item.user_role # "patient" THEN "/login" ELSE ""

\* the effect navigates away: the component is replaced by the target's
Redirected(c, target) ==
    /\ location' = [location EXCEPT ![c] = Resolve(target)]
    /\ view' = [view EXCEPT ![c] = NoView]
    /\ promise' = [promise EXCEPT ![c] = NoPromise]
    /\ UNCHANGED <<pc, error, loading>>

\* the effect lets the user in; the component starts with its initial state
\* and, when it loads data, sets loading and clears the error
Admitted(c, component, next) ==
    /\ view' = [view EXCEPT ![c] = [NoView EXCEPT !.mounted = component]]
    /\ promise' = [promise EXCEPT ![c] = NoPromise]
    /\ pc' = [pc EXCEPT ![c] = next]
    /\ error' = [error EXCEPT ![c] = ""]
    /\ loading' = [loading EXCEPT ![c] = (next # "idle")]
    /\ location' = location

\* a catch block that shows nothing
ViewFails_Silent(c, msg) ==
    /\ error' = error
    /\ loading' = [loading EXCEPT ![c] = FALSE]
    /\ pc' = [pc EXCEPT ![c] = "idle"]

\* a handler of a dashboard component ends in its catch block
ViewFails(c, msg) ==
    /\ error' = [error EXCEPT ![c] = msg]
    /\ loading' = [loading EXCEPT ![c] = FALSE]
    /\ pc' = [pc EXCEPT ![c] = "idle"]

\* what no action of the dashboard components touches
authVars == <<authUsers, db, session, nextId, req, loc, response, userData>>

\* TherapistDashboard is rendered: gate, then loadSessions up to its query
TherapistDashboard_mount(c) ==
    /\ pc[c] = "idle"
    /\ IF Gate_TherapistDashboard(c) = ""
       THEN Admitted(c, "TherapistDashboard", "td_sessions")
       ELSE Redirected(c, Gate_TherapistDashboard(c))
    /\ UNCHANGED <<authVars, session_exercise, goal, goal_exercise_set, now>>
    /\ UNCHANGED legacyVars

\* loadSessions: getTherapistSessions answers
loadSessions_answer(c) ==
    /\ pc[c] = "td_sessions"
    /\ \E ok \in BOOLEAN :
         IF ok
         THEN /\ view' = [view EXCEPT ![c].sessions =
                    getTherapistSessions(OrElseId(userData[c].user_id, userData[c].id),
                                         DefaultLimit)]
              /\ loading' = [loading EXCEPT ![c] = FALSE]
              /\ pc' = [pc EXCEPT ![c] = "idle"]
              /\ error' = error
         ELSE /\ ViewFails(c, StoreErrorMsg)
              /\ view' = view
    /\ UNCHANGED <<authVars, session_exercise, goal, goal_exercise_set, now, promise, location>>
    /\ UNCHANGED legacyVars

\* TherapistPatients is rendered: gate, then loadPatients up to its queries
TherapistPatients_mount(c) ==
    /\ pc[c] = "idle"
    /\ IF Gate_TherapistPatients(c) = ""
       THEN Admitted(c, "TherapistPatients", "tp_patients")
       ELSE Redirected(c, Gate_TherapistPatients(c))
    /\ UNCHANGED <<authVars, session_exercise, goal, goal_exercise_set, now>>
    /\ UNCHANGED legacyVars

\* loadPatients: getTherapistPatients answers (ok: the store answers its queries)
loadPatients_answer(c) ==
    /\ pc[c] = "tp_patients"
    /\ \E ok \in BOOLEAN :
         IF ok
         THEN /\ view' = [view EXCEPT ![c].patients =
                    getTherapistPatients(OrElseId(userData[c].user_id, userData[c].id))]
              /\ loading' = [loading EXCEPT ![c] = FALSE]
              /\ pc' = [pc EXCEPT ![c] = "idle"]
              /\ error' = error
         ELSE /\ ViewFails(c, StoreErrorMsg)
              /\ view' = view
    /\ UNCHANGED <<authVars, session_exercise, goal, goal_exercise_set, now, promise, location>>
    /\ UNCHANGED legacyVars

\* PatientDetails is rendered: gate only (its data comes with the navigation)
PatientDetails_mount(c) ==
    /\ pc[c] = "idle"
    /\ IF Gate_PatientDetails(c) = ""
       THEN Admitted(c, "PatientDetails", "idle")
       ELSE Redirected(c, Gate_PatientDetails(c))
    /\ UNCHANGED <<authVars, session_exercise, goal, goal_exercise_set, now>>
    /\ UNCHANGED legacyVars

\* AddPatient is rendered: gate only
AddPatient_mount(c) ==
    /\ pc[c] = "idle"
    /\ IF Gate_AddPatient(c) = ""
       THEN Admitted(c, "AddPatient", "idle")
       ELSE Redirected(c, Gate_AddPatient(c))
    /\ UNCHANGED <<authVars, session_exercise, goal, goal_exercise_set, now>>
    /\ UNCHANGED legacyVars

----------------------------------------------------------------------------
(* PatientDashboard (loadDashboardData) and PatientGoalsProgress            *)
(* (loadGoalsData, handleMarkComplete)                                      *)

ProfileNotFoundMsg == "Patient profile not found"

\* the state of a call that has answered
Settled(ok, value) ==
    [state |-> IF ok THEN "fulfilled" ELSE "rejected",
     value |-> IF ok THEN value ELSE <<>>]

\* both calls of a Promise.all are on their way
Issued == [state |-> "pending", value |-> <<>>]

\* PatientDashboard is rendered: gate, then loadDashboardData up to
\* getPatientProfile
PatientDashboard_mount(c) ==
    /\ pc[c] = "idle"
    /\ IF Gate_PatientDashboard(c) = ""
       THEN Admitted(c, "PatientDashboard", "pd_profile")
       ELSE Redirected(c, Gate_PatientDashboard(c))
    /\ UNCHANGED <<authVars, session_exercise, goal, goal_exercise_set, now>>
    /\ UNCHANGED legacyVars

\* loadDashboardData: getPatientProfile answers; with a profile the two reads
\* of Promise.all are issued together
loadDashboardData_profile(c) ==
    /\ pc[c] = "pd_profile"
    /\ \E ok \in BOOLEAN :
         LET userId == OrElseId(userData[c].user_id, userData[c].id)
             profileData == getPatientProfile(userId, ok)
         IN IF profileData = NoRow
            THEN /\ ViewFails(c, ProfileNotFoundMsg)
                 /\ UNCHANGED <<view, promise>>
            ELSE /\ view' = [view EXCEPT ![c].profile = profileData]
                 /\ promise' = [promise EXCEPT
                        ![c].getPatientTherapists = Issued,
                        ![c].getPatientUpcomingSessions = Issued]
                 /\ pc' = [pc EXCEPT ![c] = "pd_reads"]
                 /\ UNCHANGED <<error, loading>>
    /\ UNCHANGED <<authVars, session_exercise, goal, goal_exercise_set, now, location>>
    /\ UNCHANGED legacyVars

\* Promise.all of loadDashboardData after one of its calls has answered:
\* a rejection goes to the catch block at once, the results are stored when
\* both calls are fulfilled, otherwise the handler keeps waiting
loadDashboardData_all(c, ok, therapistsData, sessionsData) ==
    IF ~ok
    THEN /\ ViewFails(c, StoreErrorMsg)
         /\ view' = view
    ELSE IF /\ promise'[c].getPatientTherapists.state = "fulfilled"
            /\ promise'[c].getPatientUpcomingSessions.state = "fulfilled"
    THEN /\ view' = [view EXCEPT ![c].therapists = therapistsData,
                                 ![c].upcomingSessions = sessionsData]
         /\ loading' = [loading EXCEPT ![c] = FALSE]
         /\ pc' = [pc EXCEPT ![c] = "idle"]
         /\ error' = error
    ELSE UNCHANGED <<view, error, loading, pc>>

\* getPatientTherapists answers (ok: the store answers its queries)
getPatientTherapists_answer(c) ==
    /\ pc[c] = "pd_reads"
    /\ promise[c].getPatientTherapists.state = "pending"
    /\ \E ok \in BOOLEAN :
         LET userId == OrElseId(userData[c].user_id, userData[c].id)
             value == getPatientTherapists(userId)
         IN /\ promise' = [promise EXCEPT ![c].getPatientTherapists = Settled(ok, value)]
            /\ loadDashboardData_all(c, ok, value,
                                     promise[c].getPatientUpcomingSessions.value)
    /\ UNCHANGED <<authVars, session_exercise, goal, goal_exercise_set, now, location>>
    /\ UNCHANGED legacyVars

\* getPatientUpcomingSessions answers
getPatientUpcomingSessions_answer(c) ==
    /\ pc[c] = "pd_reads"
    /\ promise[c].getPatientUpcomingSessions.state = "pending"
    /\ \E ok \in BOOLEAN :
         LET userId == OrElseId(userData[c].user_id, userData[c].id)
             value == getPatientUpcomingSessions(userId, now)
         IN /\ promise' = [promise EXCEPT
                   ![c].getPatientUpcomingSessions = Settled(ok, value)]
            /\ loadDashboardData_all(c, ok, promise[c].getPatientTherapists.value,
                                     value)
    /\ UNCHANGED <<authVars, session_exercise, goal, goal_exercise_set, now, location>>
    /\ UNCHANGED legacyVars

\* PatientGoalsProgress is rendered: gate, then loadGoalsData up to
\* getPatientProfile
PatientGoalsProgress_mount(c) ==
    /\ pc[c] = "idle"
    /\ IF Gate_PatientGoalsProgress(c) = ""
       THEN Admitted(c, "PatientGoalsProgress", "pg_profile")
       ELSE Redirected(c, Gate_PatientGoalsProgress(c))
    /\ UNCHANGED <<authVars, session_exercise, goal, goal_exercise_set, now>>
    /\ UNCHANGED legacyVars

\* loadGoalsData: getPatientProfile answers
loadGoalsData_profile(c) ==
    /\ pc[c] = "pg_profile"
    /\ \E ok \in BOOLEAN :
         LET profileData == getPatientProfile(userData[c].user_id, ok)
         IN IF profileData = NoRow
            THEN /\ ViewFails(c, ProfileNotFoundMsg)
                 /\ UNCHANGED <<view, promise>>
            ELSE /\ view' = [view EXCEPT ![c].profile = profileData]
                 /\ promise' = [promise EXCEPT
                        ![c].getPatientActiveGoals = Issued,
                        ![c].getPatientSessionExercises = Issued]
                 /\ pc' = [pc EXCEPT ![c] = "pg_reads"]
                 /\ UNCHANGED <<error, loading>>
    /\ UNCHANGED <<authVars, session_exercise, goal, goal_exercise_set, now, location>>
    /\ UNCHANGED legacyVars

\* Promise.all of loadGoalsData after one of its calls has answered
loadGoalsData_all(c, ok, goalsData, exercisesData) ==
    IF ~ok
    THEN /\ ViewFails(c, StoreErrorMsg)
         /\ view' = view
    ELSE IF /\ promise'[c].getPatientActiveGoals.state = "fulfilled"
            /\ promise'[c].getPatientSessionExercises.state = "fulfilled"
    THEN /\ view' = [view EXCEPT ![c].activeGoals = goalsData,
                                 ![c].exercises = exercisesData]
         /\ loading' = [loading EXCEPT ![c] = FALSE]
         /\ pc' = [pc EXCEPT ![c] = "idle"]
         /\ error' = error
    ELSE UNCHANGED <<view, error, loading, pc>>

\* getPatientActiveGoals answers
getPatientActiveGoals_answer(c) ==
    /\ pc[c] = "pg_reads"
    /\ promise[c].getPatientActiveGoals.state = "pending"
    /\ \E ok \in BOOLEAN :
         LET value == getPatientActiveGoals(view[c].profile.user_id)
         IN /\ promise' = [promise EXCEPT ![c].getPatientActiveGoals = Settled(ok, value)]
            /\ loadGoalsData_all(c, ok, value,
                                 promise[c].getPatientSessionExercises.value)
    /\ UNCHANGED <<authVars, session_exercise, goal, goal_exercise_set, now, location>>
    /\ UNCHANGED legacyVars

\* getPatientSessionExercises answers
getPatientSessionExercises_answer(c) ==
    /\ pc[c] = "pg_reads"
    /\ promise[c].getPatientSessionExercises.state = "pending"
    /\ \E ok \in BOOLEAN :
         LET value == getPatientSessionExercises(view[c].profile.user_id)
         IN /\ promise' = [promise EXCEPT
                   ![c].getPatientSessionExercises = Settled(ok, value)]
            /\ loadGoalsData_all(c, ok, promise[c].getPatientActiveGoals.value, value)
    /\ UNCHANGED <<authVars, session_exercise, goal, goal_exercise_set, now, location>>
    /\ UNCHANGED legacyVars

\* the session_exercise rows .eq('session_id', ...).eq('exercise_id', ...) selects
MatchingExercises(sessionId, exerciseId) ==
    {x \in session_exercise : x.session_id = sessionId /\ x.exercise_id = exerciseId}

\* an update that sets the completion flag and leaves the date alone
Completed_KeepDate(x, at) == [x EXCEPT !.completed = TRUE]

\* an update that also wipes the notes of the row
Completed_ClearsNotes(x, at) ==
    [x EXCEPT !.completed = TRUE, !.completion_date = at, !.notes = ""]

\* .update({ completed: true, completion_date: new Date().toISOString() })
Completed(x, at) == [x EXCEPT !.completed = TRUE, !.completion_date = at]

\* the ids handleMarkComplete and addExerciseNotes are called with
SessionIds == {1, 2}
ExerciseIds == {1}

\* the user presses "mark complete": handleMarkComplete up to the update
PatientGoalsProgress_handleMarkComplete(c) ==
    /\ pc[c] = "idle"
    /\ view[c].mounted = "PatientGoalsProgress"
    /\ \E sessionId \in SessionIds, exerciseId \in ExerciseIds :
         req' = [req EXCEPT ![c] = [sessionId |-> sessionId, exerciseId |-> exerciseId]]
    /\ pc' = [pc EXCEPT ![c] = "mark_update"]
    /\ UNCHANGED <<authUsers, db, session, nextId, loc, response, userData, error,
                   loading, location, viewVars>>
    /\ UNCHANGED legacyVars

\* markExerciseComplete: the update answers; then handleMarkComplete up to
\* its refresh (ok: the store answers; .single() wants exactly one updated row,
\* a request that fails changes nothing)
markExerciseComplete_answer(c) ==
    /\ pc[c] = "mark_update"
    /\ \E ok \in BOOLEAN :
         LET rows == MatchingExercises(req[c].sessionId, req[c].exerciseId)
         IN IF ok /\ ~single(rows).error
            THEN /\ session_exercise' =
                       (session_exercise \ rows) \cup {Completed(x, now) : x \in rows}
                 /\ view' = [view EXCEPT
                        ![c].successMessage = "Exercise marked as complete!",
                        ![c].successTimer = (view[c].profile = NoRow)]
                 /\ pc' = [pc EXCEPT ![c] =
                        IF view[c].profile # NoRow THEN "mark_refresh" ELSE "idle"]
                 /\ error' = error
            ELSE /\ error' = [error EXCEPT ![c] =
                        IF ok THEN SingleRowMsg ELSE StoreErrorMsg]
                 /\ pc' = [pc EXCEPT ![c] = "idle"]
                 /\ UNCHANGED <<session_exercise, view>>
    /\ req' = [req EXCEPT ![c] = IF pc'[c] = "idle" THEN NoReq ELSE @]
    /\ UNCHANGED <<authUsers, db, session, nextId, loc, response, userData, loading,
                   location, goal, goal_exercise_set, now, promise>>
    /\ UNCHANGED legacyVars

\* handleMarkComplete: the refresh by getPatientSessionExercises answers
handleMarkComplete_refresh(c) ==
    /\ pc[c] = "mark_refresh"
    /\ \E ok \in BOOLEAN :
         IF ok
         THEN /\ view' = [view EXCEPT
                    ![c].exercises = getPatientSessionExercises(view[c].profile.user_id),
                    ![c].successTimer = TRUE]
              /\ error' = error
         ELSE /\ error' = [error EXCEPT ![c] = StoreErrorMsg]
              /\ view' = view
    /\ pc' = [pc EXCEPT ![c] = "idle"]
    /\ req' = [req EXCEPT ![c] = NoReq]
    /\ UNCHANGED <<authUsers, db, session, nextId, loc, response, userData, loading,
                   location, session_exercise, goal, goal_exercise_set, now, promise>>
    /\ UNCHANGED legacyVars

\* the callback of setTimeout(() => setSuccessMessage(null), 3000)
successMessage_timeout(c) ==
    /\ view[c].successTimer
    /\ view' = [view EXCEPT ![c].successMessage = "", ![c].successTimer = FALSE]
    /\ UNCHANGED <<authVars, pc, error, loading, location, session_exercise, goal, goal_exercise_set,
                   now, promise>>
    /\ UNCHANGED legacyVars

\* the notes addExerciseNotes is called with
Notes == {"well done"}

\* addExerciseNotes called by a signed-in user (no component calls it); its
\* result or error goes to the caller
addExerciseNotes(c) ==
    /\ pc[c] = "idle"
    /\ userData[c] # NoData
    /\ \E sessionId \in SessionIds, exerciseId \in ExerciseIds, notes \in Notes,
          ok \in BOOLEAN :
         LET rows == MatchingExercises(sessionId, exerciseId)
         IN session_exercise' =
               IF ok /\ ~single(rows).error
               THEN (session_exercise \ rows) \cup {[x EXCEPT !.notes = notes] : x \in rows}
               ELSE session_exercise
    /\ UNCHANGED <<authVars, pc, error, loading, location, goal, goal_exercise_set, now, view, promise>>
    /\ UNCHANGED legacyVars

\* time passes
Tick ==
    /\ now < MaxNow
    /\ now' = now + 1
    /\ UNCHANGED <<authVars, pc, error, loading, location, session_exercise, goal, goal_exercise_set,
                   view, promise>>
    /\ UNCHANGED legacyVars

----------------------------------------------------------------------------
(* The legacy backend: backend/routes/auth.ts (register, login, verify over *)
(* the in-memory users array) and backend/middleware/auth.ts.  A request is *)
(* handled by one caller slot of Requests; an async handler is cut at its   *)
(* `await` on the password library, a synchronous one is a single action.   *)
(* Identifiers are the numbers whose decimal strings the code stores; body  *)
(* fields are strings, "" standing for a missing field.                     *)

Requests == {"r1", "r2"}

\* the last day of the backend clock
MaxClock == 8

\* { expiresIn: '7d' }, in days
ExpiresIn == 7

JWT_SECRET == "your-secret-key-change-in-production"

BackendUsernames == {"therapist123", "sam"}
BackendEmails == {"therapist@example.com", "sam@example.com"}
BackendPasswords == {"password123", "letmein"}

\* bcrypt.hash: a salted one-way value, never the password itself
bcrypt_hash(password) == [bcrypt |-> password]

\* the literal stored for the two demo accounts
DemoHash == [bcrypt |-> "$2a$10$8K1p/a0dL3LXK5YU5gL5qO"]

\* a comparison that accepts every password
bcrypt_compare_Always(password, hash) == {TRUE}

\* bcrypt.compare.  Whether the demo literal is the hash of "password123",
\* as its comment says, cannot be read off the source: both answers.
bcrypt_compare(password, hash) ==
    IF hash = DemoHash
    THEN IF password = "password123" THEN BOOLEAN ELSE {FALSE}
    ELSE {hash = bcrypt_hash(password)}

NoLegacyUser == [id |-> 0, username |-> "", email |-> "", password |-> <<>>, role |-> ""]
NoBody == <<>>
NoHandler == [pc |-> "idle", body |-> NoBody, user |-> NoLegacyUser]
NoToken == [payload |-> <<>>, secret |-> ""]
NoRes == [status |-> 0, message |-> "", data |-> <<>>, next |-> 0]

DemoUsers ==
    << [id |-> 1, username |-> "therapist123", email |-> "therapist@example.com",
        password |-> DemoHash, role |-> "therapist"],
       [id |-> 2, username |-> "patient123", email |-> "patient@example.com",
        password |-> DemoHash, role |-> "patient"] >>

\* the legacy items of a browser that the legacy authService has not written
NoStorage == [token |-> NoToken, user |-> NoData]

InitLegacy ==
    /\ users = DemoUsers
    /\ handler = [r \in Requests |-> NoHandler]
    /\ res = [r \in Requests |-> NoRes]
    /\ clock = 0
    /\ token = [r \in Requests |-> NoToken]
    /\ localStorage = [c \in Clients |-> NoStorage]

\* Array.prototype.find: the first element that satisfies P, or none
Find(s, P(_)) ==
    LET I == {i \in 1..Len(s) : P(s[i])}
    IN  IF I = {} THEN NoLegacyUser
        ELSE s[CHOOSE i \in I : \A j \in I : i <= j]

\* res.status(status).json({success, message, data})
Json(status, message, data) ==
    [status |-> status, message |-> message, data |-> data, next |-> 0]

\* jwt.sign(payload, JWT_SECRET, { expiresIn: '7d' }) at instant `at`
jwt_sign(user, secret, at) ==
    [payload |-> [id |-> user.id, username |-> user.username, email |-> user.email,
                  role |-> user.role, iat |-> at, exp |-> at + ExpiresIn],
     secret |-> secret]

\* a jwt.verify that never looks at the expiry
jwt_verify_NoExpiry(t, secret, at) ==
    /\ t.payload # <<>>
    /\ t.secret = secret

\* jwt.verify(token, secret) does not throw: signed with the secret and not
\* expired (the library rejects from the instant exp on)
jwt_verify(t, secret, at) ==
    /\ t.payload # <<>>
    /\ t.secret = secret
    /\ at < t.payload.exp

\* the userData object a handler builds field by field
UserDataOf_Whole(user) == user

UserDataOf(user) ==
    [id |-> user.id, username |-> user.username, email |-> user.email,
     role |-> user.role]

RegisterBodies ==
    [username : BackendUsernames \cup {""}, email : BackendEmails,
     password : {"letmein"}, role : {"therapist", "patient", "admin"},
     roleFields : BOOLEAN]

LoginBodies ==
    [username : BackendUsernames \cup BackendEmails \cup {""},
     password : BackendPasswords]

Respond(r, body, user, answer) ==
    /\ res' = [res EXCEPT ![r] = answer]
    /\ handler' = [handler EXCEPT ![r] = [pc |-> "idle", body |-> body, user |-> user]]

\* POST /api/auth/register up to `await bcrypt.hash`
legacy_register(r) ==
    /\ handler[r].pc = "idle"
    /\ \E body \in RegisterBodies :
        LET existingUsername == Find(users, LAMBDA u : u.username = body.username)
            existingEmail == Find(users, LAMBDA u : u.email = body.email)
        IN  IF body.username = ""
            THEN Respond(r, body, NoLegacyUser, Json(400, "All basic fields are required", <<>>))
            ELSE IF body.role \notin {"therapist", "patient"}
            THEN Respond(r, body, NoLegacyUser, Json(400, "Role must be either therapist or patient", <<>>))
            ELSE IF ~body.roleFields
            THEN Respond(r, body, NoLegacyUser, Json(400,
                     IF body.role = "therapist"
                     THEN "Clinic name, years of experience, and qualification are required for therapists"
                     ELSE "Therapy start date and preferred contact method are required for patients",
                     <<>>))
            ELSE IF existingUsername # NoLegacyUser
            THEN Respond(r, body, NoLegacyUser, Json(400, "Username already exists", <<>>))
            ELSE IF existingEmail # NoLegacyUser
            THEN Respond(r, body, NoLegacyUser, Json(400, "Email already exists", <<>>))
            ELSE /\ handler' = [handler EXCEPT ![r] =
                                   [pc |-> "hash", body |-> body, user |-> NoLegacyUser]]
                 /\ res' = [res EXCEPT ![r] = NoRes]
    /\ UNCHANGED <<users, clock, token>>
    /\ UNCHANGED <<authVars, pc, error, loading, location, viewVars, localStorage>>

\* register after the hash: push, sign, answer 201
legacy_register_hashed(r) ==
    /\ handler[r].pc = "hash"
    /\ LET body == handler[r].body
           newUser == [id |-> Len(users) + 1, username |-> body.username,
                       email |-> body.email,
                       password |-> bcrypt_hash(body.password), role |-> body.role]
           t == jwt_sign(newUser, JWT_SECRET, clock)
       IN  /\ users' = Append(users, newUser)
           /\ token' = [token EXCEPT ![r] = t]
           /\ Respond(r, body, newUser, Json(201, "User registered successfully",
                              [token |-> t, user |-> UserDataOf(newUser)]))
    /\ UNCHANGED clock
    /\ UNCHANGED <<authVars, pc, error, loading, location, viewVars, localStorage>>

InvalidLegacyLogin == Json(401, "Invalid username or password", <<>>)

\* POST /api/auth/login up to `await bcrypt.compare`
legacy_login(r) ==
    /\ handler[r].pc = "idle"
    /\ \E body \in LoginBodies :
        LET user == Find(users, LAMBDA u : u.username = body.username
                                           \/ u.email = body.username)
        IN  IF body.username = ""
            THEN Respond(r, body, user, Json(400, "Username and password are required", <<>>))
            ELSE IF user = NoLegacyUser
            THEN Respond(r, body, user, InvalidLegacyLogin)
            ELSE /\ handler' = [handler EXCEPT ![r] =
                                   [pc |-> "compare", body |-> body, user |-> user]]
                 /\ res' = [res EXCEPT ![r] = NoRes]
    /\ UNCHANGED <<users, clock, token>>
    /\ UNCHANGED <<authVars, pc, error, loading, location, viewVars, localStorage>>

\* login after the comparison
legacy_login_compared(r) ==
    /\ handler[r].pc = "compare"
    /\ \E isPasswordValid \in bcrypt_compare(handler[r].body.password,
                                             handler[r].user.password) :
        LET user == handler[r].user
            t == jwt_sign(user, JWT_SECRET, clock)
        IN  IF ~isPasswordValid
            THEN /\ Respond(r, handler[r].body, user, InvalidLegacyLogin)
                 /\ UNCHANGED token
            ELSE /\ token' = [token EXCEPT ![r] = t]
                 /\ Respond(r, handler[r].body, user, Json(200, "Login successful",
                                    [token |-> t, user |-> UserDataOf(user)]))
    /\ UNCHANGED <<users, clock>>
    /\ UNCHANGED <<authVars, pc, error, loading, location, viewVars, localStorage>>

\* the Authorization headers a caller may send: none, another scheme, or
\* 'Bearer ' followed by the token it holds, by that token signed with
\* another key, or by nothing
NoHeader == [scheme |-> "", token |-> NoToken]

Headers(r) ==
    {NoHeader, [scheme |-> "Basic", token |-> token[r]],
     [scheme |-> "Bearer", token |-> NoToken],
     [scheme |-> "Bearer", token |-> token[r]],
     [scheme |-> "Bearer", token |-> [token[r] EXCEPT !.secret = "guessed"]]}

\* GET /api/auth/verify
verify(authHeader, at) ==
    IF authHeader.scheme # "Bearer"
    THEN Json(401, "No token provided", <<>>)
    ELSE IF ~jwt_verify(authHeader.token, JWT_SECRET, at)
    THEN Json(401, "Invalid token", <<>>)
    ELSE LET decoded == authHeader.token.payload
             user == Find(users, LAMBDA u : u.id = decoded.id)
         IN  IF user = NoLegacyUser
             THEN Json(401, "User not found", <<>>)
             ELSE Json(200, "", [user |-> UserDataOf(user)])

legacy_verify(r) ==
    /\ handler[r].pc = "idle"
    /\ \E authHeader \in Headers(r) :
        Respond(r, authHeader, NoLegacyUser, verify(authHeader, clock))
    /\ UNCHANGED <<users, clock, token>>
    /\ UNCHANGED <<authVars, pc, error, loading, location, viewVars, localStorage>>

\* authenticateToken: the response it sends, or next() with req.user set
authenticateToken(authHeader, at) ==
    IF authHeader.scheme # "Bearer"
    THEN Json(401, "Access denied. No token provided.", <<>>)
    ELSE IF ~jwt_verify(authHeader.token, JWT_SECRET, at)
    THEN Json(403, "Invalid or expired token", <<>>)
    ELSE [NoRes EXCEPT !.data = [user |-> authHeader.token.payload], !.next = 1]

\* an authorizeRole that lets every authenticated user through
authorizeRole_AnyRole(roles, user) ==
    IF user = <<>>
    THEN Json(401, "Access denied. User not authenticated.", <<>>)
    ELSE [NoRes EXCEPT !.data = [user |-> user], !.next = 1]

\* authorizeRole(...roles) on a request whose req.user is `user` (<<>> when
\* no middleware has set it)
authorizeRole(roles, user) ==
    IF user = <<>>
    THEN Json(401, "Access denied. User not authenticated.", <<>>)
    ELSE IF user.role \notin roles
    THEN Json(403, "Access denied. Insufficient permissions.", <<>>)
    ELSE [NoRes EXCEPT !.data = [user |-> user], !.next = 1]

\* a route mounted with authorizeRole(roles), behind authenticateToken or
\* not: the response of the middleware that stops the request, else the
\* number of next() calls that lead to the route handler
Protected(authHeader, roles, authenticated, at) ==
    LET a == authenticateToken(authHeader, at)
    IN  IF authenticated /\ a.next = 0 THEN a
        ELSE LET b == authorizeRole(roles, IF authenticated THEN a.data.user ELSE <<>>)
             IN  [b EXCEPT !.next = (IF authenticated THEN 1 ELSE 0) + b.next]

MiddlewareRoles == SUBSET {"therapist", "patient"}

legacy_protected(r) ==
    /\ handler[r].pc = "idle"
    /\ \E authHeader \in Headers(r), roles \in MiddlewareRoles, authenticated \in BOOLEAN :
        Respond(r, [authHeader |-> authHeader, roles |-> roles,
                    authenticated |-> authenticated],
                NoLegacyUser, Protected(authHeader, roles, authenticated, clock))
    /\ UNCHANGED <<users, clock, token>>
    /\ UNCHANGED <<authVars, pc, error, loading, location, viewVars, localStorage>>

\* a day passes
ClockTick ==
    /\ clock < MaxClock
    /\ clock' = clock + 1
    /\ UNCHANGED <<users, handler, res, token>>
    /\ UNCHANGED <<authVars, pc, error, loading, location, viewVars, localStorage>>

\* one caller at a time, over the days of a token's life
InitBackend ==
    /\ InitLegacy
    /\ authUsers = {}
    /\ db = [t \in TableNames |-> {}]
    /\ session = {}
    /\ nextId = 1
    /\ pc = [c \in Clients |-> "idle"]
    /\ req = [c \in Clients |-> NoReq]
    /\ loc = [c \in Clients |-> NoLoc]
    /\ response = [c \in Clients |-> NoResponse]
    /\ error = [c \in Clients |-> ""]
    /\ loading = [c \in Clients |-> FALSE]
    /\ location = [c \in Clients |-> "/"]
    /\ userData = [c \in Clients |-> NoData]
    /\ session_exercise = {}
    /\ goal = {}
    /\ goal_exercise_set = {}
    /\ now = 1
    /\ view = [c \in Clients |-> NoView]
    /\ promise = [c \in Clients |-> NoPromise]

NextBackend ==
    \/ ClockTick
    \/ \E r \in {"r1"} :
        \/ legacy_register(r)
        \/ legacy_register_hashed(r)
        \/ legacy_login(r)
        \/ legacy_login_compared(r)
        \/ legacy_verify(r)
        \/ legacy_protected(r)

SpecBackend == InitBackend /\ [][NextBackend]_vars

\* concurrent callers on one day
NextConcurrent ==
    \E r \in Requests :
        \/ legacy_register(r)
        \/ legacy_register_hashed(r)
        \/ legacy_login(r)
        \/ legacy_login_compared(r)

SpecConcurrent == InitBackend /\ [][NextConcurrent]_vars

----------------------------------------------------------------------------
(* The dashboards over a store that registrations and therapists have filled *)

\* profile rows: therapists 1 and 2, the registered patient 3 and patient 4,
\* whom a therapist has added
SeedRow(id, username, email, role) ==
    [rid |-> id, user_id |-> id, username |-> username, email |-> email,
     user_role |-> role]
TherapistRows ==
    {SeedRow(1, "Ayra", "ayra@example.com", "therapist"),
     SeedRow(2, "Noor", "noor@example.com", "therapist")}
PatientRows ==
    {SeedRow(3, "Will", "will@example.com", "patient"),
     SeedRow(4, "Sam", "sam@example.com", "patient")}

\* session rows with the columns the reads use; patient_id 0 is null
SessionRows ==
    {[session_id |-> 1, patient_id |-> 3, therapist_id |-> 1, session_date |-> 2],
     [session_id |-> 2, patient_id |-> 3, therapist_id |-> 1, session_date |-> 1],
     [session_id |-> 3, patient_id |-> 0, therapist_id |-> 1, session_date |-> 2],
     [session_id |-> 4, patient_id |-> 4, therapist_id |-> 2, session_date |-> 2]}

\* session_exercise rows as assigned: not completed, no completion date (0);
\* session 2 has no exercise
ExerciseRows ==
    {[session_id |-> 1, exercise_id |-> 1, completed |-> FALSE,
      completion_date |-> 0, notes |-> ""]}

GoalRows ==
    {[goal_id |-> 1, session_id |-> 1, status |-> "active"],
     [goal_id |-> 2, session_id |-> 2, status |-> "completed"]}

\* what Login has written for the signed-in user: therapist 1, patient 3, or
\* nothing when nobody has logged in
StoredLogins ==
    {NoData}
    \cup {LoginUser(r, "therapist", r.email) : r \in {x \in db["therapist"] : x.user_id = 1}}
    \cup {LoginUser(r, "patient", r.email) : r \in {x \in db["patient"] : x.user_id = 3}}

InitViews ==
    /\ InitLegacy
    /\ db \in {[therapist |-> TherapistRows, patient |-> P, parent_carer |-> {}] :
                  P \in SUBSET PatientRows}
    /\ authUsers = {[id |-> r.user_id, email |-> r.email, password |-> PasswordOf(r.username)] :
                       r \in {x \in AllRows : x.user_id # 4}}
    /\ session \in SUBSET SessionRows
    /\ session_exercise \in SUBSET ExerciseRows
    /\ goal = GoalRows
    /\ goal_exercise_set = {}
    /\ now = 1
    /\ nextId = 5
    /\ userData \in [Clients -> StoredLogins]
    /\ pc = [c \in Clients |-> "idle"]
    /\ req = [c \in Clients |-> NoReq]
    /\ loc = [c \in Clients |-> NoLoc]
    /\ response = [c \in Clients |-> NoResponse]
    /\ error = [c \in Clients |-> ""]
    /\ loading = [c \in Clients |-> FALSE]
    /\ location = [c \in Clients |-> "/"]
    /\ view = [c \in Clients |-> NoView]
    /\ promise = [c \in Clients |-> NoPromise]

NextViews ==
    \/ Tick
    \/ \E c \in Clients :
        \/ TherapistDashboard_mount(c)
        \/ loadSessions_answer(c)
        \/ TherapistPatients_mount(c)
        \/ loadPatients_answer(c)
        \/ PatientDetails_mount(c)
        \/ AddPatient_mount(c)
        \/ PatientDashboard_mount(c)
        \/ loadDashboardData_profile(c)
        \/ getPatientTherapists_answer(c)
        \/ getPatientUpcomingSessions_answer(c)
        \/ PatientGoalsProgress_mount(c)
        \/ loadGoalsData_profile(c)
        \/ getPatientActiveGoals_answer(c)
        \/ getPatientSessionExercises_answer(c)
        \/ PatientGoalsProgress_handleMarkComplete(c)
        \/ markExerciseComplete_answer(c)
        \/ handleMarkComplete_refresh(c)
        \/ successMessage_timeout(c)
        \/ addExerciseNotes(c)

SpecViews == InitViews /\ [][NextViews]_vars

----------------------------------------------------------------------------
(* Specification *)

Init ==
    /\ InitLegacy
    /\ authUsers = {}
    /\ db = [t \in TableNames |-> {}]
    /\ session = {}
    /\ nextId = 1
    /\ pc = [c \in Clients |-> "idle"]
    /\ req = [c \in Clients |-> NoReq]
    /\ loc = [c \in Clients |-> NoLoc]
    /\ response = [c \in Clients |-> NoResponse]
    /\ error = [c \in Clients |-> ""]
    /\ loading = [c \in Clients |-> FALSE]
    /\ location = [c \in Clients |-> "/"]
    /\ userData = [c \in Clients |-> NoData]
    /\ session_exercise = {}
    /\ goal = {}
    /\ goal_exercise_set = {}
    /\ now = 1
    /\ view = [c \in Clients |-> NoView]
    /\ promise = [c \in Clients |-> NoPromise]

Next ==
    \E c \in Clients :
        \/ OpenPage(c)
        \/ RegisterSubmit(c)
        \/ Register_handleSubmit(c)
        \/ register_signUp(c)
        \/ register_insert(c)
        \/ Login_handleSubmit(c)
        \/ login_therapist(c)
        \/ login_patient(c)
        \/ login_parent_carer(c)
        \/ login_signIn(c)
        \/ TherapistDashboard_handleSubmit(c)
        \/ createPatient_insertPatient(c)
        \/ createPatient_insertSession(c)

Spec == Init /\ [][Next]_vars

----------------------------------------------------------------------------
(* The flows of Register, Login, the add-patient form and the dashboard    *)
(* load, with every call on the provider and the store answered in the end *)

\* the provider has handed out all identifiers but the last two
InitFlows ==
    /\ InitLegacy
    /\ authUsers = {}
    /\ db = [t \in TableNames |-> {}]
    /\ session = {}
    /\ nextId = MaxId - 1
    /\ pc = [c \in Clients |-> "idle"]
    /\ req = [c \in Clients |-> NoReq]
    /\ loc = [c \in Clients |-> NoLoc]
    /\ response = [c \in Clients |-> NoResponse]
    /\ error = [c \in Clients |-> ""]
    /\ loading = [c \in Clients |-> FALSE]
    /\ location = [c \in Clients |-> "/"]
    /\ userData = [c \in Clients |-> NoData]
    /\ session_exercise = {}
    /\ goal = {}
    /\ goal_exercise_set = {}
    /\ now = 1
    /\ view = [c \in Clients |-> NoView]
    /\ promise = [c \in Clients |-> NoPromise]

\* the steps that are answers of the provider or the store
Answer(c) ==
    \/ Register_handleSubmit(c)
    \/ register_signUp(c)
    \/ register_insert(c)
    \/ login_therapist(c)
    \/ login_patient(c)
    \/ login_parent_carer(c)
    \/ login_signIn(c)
    \/ createPatient_insertPatient(c)
    \/ createPatient_insertSession(c)
    \/ loadSessions_answer(c)

NextFlows ==
    \E c \in Clients :
        \/ OpenPage(c)
        \/ RegisterSubmit(c)
        \/ Register_handleSubmit(c)
        \/ register_signUp(c)
        \/ register_insert(c)
        \/ Login_handleSubmit(c)
        \/ login_therapist(c)
        \/ login_patient(c)
        \/ login_parent_carer(c)
        \/ login_signIn(c)
        \/ TherapistDashboard_handleSubmit(c)
        \/ createPatient_insertPatient(c)
        \/ createPatient_insertSession(c)
        \/ TherapistDashboard_mount(c)
        \/ loadSessions_answer(c)

SpecFlows ==
    InitFlows /\ [][NextFlows]_vars /\ \A c \in Clients : WF_vars(Answer(c))

----------------------------------------------------------------------------
(* Logout.  Each protected component has its own handler; the component is *)
(* replaced by the page the handler navigates to.                          *)

\* localStorage.removeItem for each key of keys
removeItem(c, keys) ==
    /\ userData' = IF "userData" \in keys THEN [userData EXCEPT ![c] = NoData]
                   ELSE userData
    /\ localStorage' =
           [localStorage EXCEPT
               ![c] = [token |-> IF "token" \in keys THEN NoToken ELSE @.token,
                       user |-> IF "user" \in keys THEN NoData ELSE @.user]]

handleLogout(c, keys) ==
    /\ removeItem(c, keys)
    /\ location' = [location EXCEPT ![c] = Resolve("/login")]
    /\ view' = [view EXCEPT ![c] = NoView]
    /\ promise' = [promise EXCEPT ![c] = NoPromise]
    /\ UNCHANGED <<authUsers, db, session, nextId, req, loc, response>>
    /\ UNCHANGED <<pc, error, loading, session_exercise, goal, goal_exercise_set, now>>
    /\ UNCHANGED <<users, handler, res, clock, token>>

TherapistDashboard_handleLogout(c) ==
    /\ pc[c] = "idle"
    /\ view[c].mounted = "TherapistDashboard"
    /\ handleLogout(c, {"token", "userData"})

TherapistPatients_handleLogout(c) ==
    /\ pc[c] = "idle"
    /\ view[c].mounted = "TherapistPatients"
    /\ handleLogout(c, {"userData"})

PatientDetails_handleLogout(c) ==
    /\ pc[c] = "idle"
    /\ view[c].mounted = "PatientDetails"
    /\ handleLogout(c, {"token", "user"})

AddPatient_handleLogout(c) ==
    /\ pc[c] = "idle"
    /\ view[c].mounted = "AddPatient"
    /\ handleLogout(c, {"userData"})

PatientDashboard_handleLogout(c) ==
    /\ pc[c] = "idle"
    /\ view[c].mounted = "PatientDashboard"
    /\ handleLogout(c, {"userData"})

PatientGoalsProgress_handleLogout(c) ==
    /\ pc[c] = "idle"
    /\ view[c].mounted = "PatientGoalsProgress"
    /\ handleLogout(c, {"userData"})

\* JSON.stringify(result.data.user) of a legacy login
LegacyItem(u) ==
    [user_id |-> 0, id |-> u.id, email |-> u.email, username |-> u.username,
     role |-> u.role, user_role |-> ""]

\* what the legacy authService has left in the browser: nothing, or the
\* token and the user of a login of the demo therapist
LegacyStorages ==
    {NoStorage,
     [token |-> jwt_sign(DemoUsers[1], JWT_SECRET, 0), user |-> LegacyItem(DemoUsers[1])]}

\* browsers with any stored login, over the filled store
InitSession ==
    /\ db = [therapist |-> TherapistRows, patient |-> PatientRows, parent_carer |-> {}]
    /\ authUsers = {[id |-> r.user_id, email |-> r.email, password |-> PasswordOf(r.username)] :
                       r \in {x \in AllRows : x.user_id # 4}}
    /\ session = SessionRows
    /\ session_exercise = ExerciseRows
    /\ goal = GoalRows
    /\ goal_exercise_set = {}
    /\ now = 1
    /\ nextId = 5
    /\ userData \in [Clients -> StoredLogins]
    /\ localStorage \in [Clients -> LegacyStorages]
    /\ pc = [c \in Clients |-> "idle"]
    /\ req = [c \in Clients |-> NoReq]
    /\ loc = [c \in Clients |-> NoLoc]
    /\ response = [c \in Clients |-> NoResponse]
    /\ error = [c \in Clients |-> ""]
    /\ loading = [c \in Clients |-> FALSE]
    /\ location = [c \in Clients |-> "/"]
    /\ view = [c \in Clients |-> NoView]
    /\ promise = [c \in Clients |-> NoPromise]
    /\ users = DemoUsers
    /\ handler = [r \in Requests |-> NoHandler]
    /\ res = [r \in Requests |-> NoRes]
    /\ clock = 0
    /\ token = [r \in Requests |-> NoToken]

NextSession ==
    \E c \in Clients :
        \/ TherapistDashboard_mount(c)
        \/ loadSessions_answer(c)
        \/ TherapistPatients_mount(c)
        \/ loadPatients_answer(c)
        \/ PatientDetails_mount(c)
        \/ AddPatient_mount(c)
        \/ PatientDashboard_mount(c)
        \/ loadDashboardData_profile(c)
        \/ getPatientTherapists_answer(c)
        \/ getPatientUpcomingSessions_answer(c)
        \/ PatientGoalsProgress_mount(c)
        \/ loadGoalsData_profile(c)
        \/ getPatientActiveGoals_answer(c)
        \/ getPatientSessionExercises_answer(c)
        \/ TherapistDashboard_handleLogout(c)
        \/ TherapistPatients_handleLogout(c)
        \/ PatientDetails_handleLogout(c)
        \/ AddPatient_handleLogout(c)
        \/ PatientDashboard_handleLogout(c)
        \/ PatientGoalsProgress_handleLogout(c)

SpecSession == InitSession /\ [][NextSession]_vars

----------------------------------------------------------------------------
(* The redirects of the role gates, followed from one component to the     *)
(* next.  A path is taken to render the component it is named after        *)
(* (Login.tsx sends a therapist to /therapist-dashboard and a patient to   *)
(* /patient-dashboard); App.tsx itself has no route for the dashboards.    *)

\* the component rendered at a path
RouteOf(path) ==
    CASE path = "/therapist-dashboard" -> "TherapistDashboard"
      [] path = "/patient-dashboard" -> "PatientDashboard"
      [] path = "/login" -> "Login"
      [] OTHER -> "Home"

\* where the gate of a component sends the browser, "" when it stays
GateOf(component, c) ==
    CASE component = "TherapistDashboard" -> Gate_TherapistDashboard(c)
      [] component = "TherapistPatients" -> Gate_TherapistPatients(c)
      [] component = "PatientDetails" -> Gate_PatientDetails_UserData(c)
      [] component = "AddPatient" -> Gate_AddPatient(c)
      [] component = "PatientDashboard" -> Gate_PatientDashboard(c)
      [] component = "PatientGoalsProgress" -> Gate_PatientGoalsProgress(c)
      [] OTHER -> ""

ProtectedViews ==
    {"TherapistDashboard", "TherapistPatients", "PatientDetails", "AddPatient",
     "PatientDashboard", "PatientGoalsProgress"}

\* role strings a stored user object may carry
StoredRoles ==
    {"therapist", "patient", "parent_carer", "admin", "guardian", "Therapist",
     "patient "}

\* the stored item: absent, or a user object with one role, written with
\* or without the user_role column
StoredValues ==
    {NoData} \cup
    UNION {{[NoData EXCEPT !.user_id = 1, !.id = 1, !.role = r, !.user_role = ur] :
                ur \in {"", r}} : r \in StoredRoles}

\* the effect of the rendered component navigates
Gate_navigate(c) ==
    /\ GateOf(view[c].mounted, c) # ""
    /\ location' = [location EXCEPT ![c] = GateOf(view[c].mounted, c)]
    /\ view' = [view EXCEPT ![c].mounted = RouteOf(GateOf(view[c].mounted, c))]
    /\ UNCHANGED <<authVars, pc, error, loading, session_exercise, goal, goal_exercise_set, now, promise>>
    /\ UNCHANGED legacyVars

InitRedirect ==
    /\ InitLegacy
    /\ authUsers = {}
    /\ db = [t \in TableNames |-> {}]
    /\ session = {}
    /\ nextId = 1
    /\ pc = [c \in Clients |-> "idle"]
    /\ req = [c \in Clients |-> NoReq]
    /\ loc = [c \in Clients |-> NoLoc]
    /\ response = [c \in Clients |-> NoResponse]
    /\ error = [c \in Clients |-> ""]
    /\ loading = [c \in Clients |-> FALSE]
    /\ location = [c \in Clients |-> "/"]
    /\ userData \in [Clients -> StoredValues]
    /\ session_exercise = {}
    /\ goal = {}
    /\ goal_exercise_set = {}
    /\ now = 1
    /\ view \in {[c \in Clients |-> [NoView EXCEPT !.mounted = m[c]]] :
                    m \in [Clients -> ProtectedViews]}
    /\ promise = [c \in Clients |-> NoPromise]

NextRedirect == \E c \in Clients : Gate_navigate(c)

SpecRedirect ==
    InitRedirect /\ [][NextRedirect]_vars /\ WF_vars(NextRedirect)

----------------------------------------------------------------------------
(* The patient reads of supabasePatientService called directly, over any    *)
(* store.  getPatientAssignedExercises and getPatientStats are exported but *)
(* no component calls them; a call action stands for any caller, and        *)
(* promise[c] holds the one call the caller has awaited last.               *)

\* goals.map(g => g.goal_id)
GoalIdsOf(goals) == [i \in 1..Len(goals) |-> goals[i].goal_id]

\* getPatientAssignedExercises when its three queries are answered
getPatientAssignedExercises(patientId) ==
    LET sessionIds == SessionIdsOfPatient(patientId)
        goals == Rows({g \in goal : g.session_id \in Range(sessionIds)})
        goalIds == SelectSeq(GoalIdsOf(goals), NotNull)
    IN IF Len(sessionIds) = 0 THEN <<>>
       ELSE IF Len(goals) = 0 THEN <<>>
       ELSE IF Len(goalIds) = 0 THEN <<>>
       ELSE Rows({x \in goal_exercise_set : x.goal_id \in Range(goalIds)})

\* Math.round((completed / total) * 100): the nearest integer, a half going
\* up.  Exact for the totals of the stores below, where the double quotient
\* never falls next to a half.
Math_round_percent(completed, total) == (200 * completed + total) \div (2 * total)

\* seq.filter(keep).length
CountWhere(seq, keep(_)) == Cardinality({i \in 1..Len(seq) : keep(seq[i])})

\* what the catch of getPatientStats returns
ZeroStats ==
    [totalSessions |-> 0, totalGoals |-> 0, completedGoals |-> 0,
     goalCompletionRate |-> 0, totalExercises |-> 0, completedExercises |-> 0,
     exerciseCompletionRate |-> 0]

\* a getPatientStats whose catch throws the error on, as the other reads do
getPatientStats_Rethrow(patientId, sessError, goalsError, exercisesError) ==
    IF sessError THEN Settled(FALSE, <<>>) ELSE Settled(TRUE, ZeroStats)

\* getPatientStats; sessError, goalsError and exercisesError say which of its
\* queries comes back with an error.  The error of the session query is
\* thrown into the catch; the goal and exercise queries read only data, which
\* is null on an error.
getPatientStats(patientId, sessError, goalsError, exercisesError) ==
    LET sessions == Rows({s \in session : s.patient_id = patientId})
        sessionIds == SelectSeq(SessionIdsOf(sessions), NotNull)
        goals == IF goalsError THEN <<>>
                 ELSE Rows({g \in goal : g.session_id \in Range(sessionIds)})
        exercises == IF exercisesError THEN <<>>
                     ELSE Rows({x \in session_exercise :
                                   x.session_id \in Range(sessionIds)})
        totalGoals == Len(goals)
        completedGoals == CountWhere(goals, LAMBDA g : g.status = "completed")
        totalExercises == Len(exercises)
        completedExercises == CountWhere(exercises, LAMBDA e : e.completed)
    IN IF sessError THEN Settled(TRUE, ZeroStats)
       ELSE Settled(TRUE,
                [totalSessions |-> Len(sessions),
                 totalGoals |-> totalGoals,
                 completedGoals |-> completedGoals,
                 goalCompletionRate |->
                     IF totalGoals # 0
                     THEN Math_round_percent(completedGoals, totalGoals) ELSE 0,
                 totalExercises |-> totalExercises,
                 completedExercises |-> completedExercises,
                 exerciseCompletionRate |->
                     IF totalExercises # 0
                     THEN Math_round_percent(completedExercises, totalExercises)
                     ELSE 0])

\* the patients whose data is asked for
PatientIds == {r.user_id : r \in PatientRows}

\* a settled call together with the patient id it was made for
Called(patientId, outcome) ==
    [state |-> outcome.state, value |-> outcome.value, patientId |-> patientId]

\* getPatientActiveGoals(patientId) is awaited: the rows, or the error of one
\* of its queries thrown on
getPatientActiveGoals_call(c) ==
    /\ pc[c] = "idle"
    /\ \E patientId \in PatientIds, ok \in BOOLEAN :
         promise' = [promise EXCEPT ![c] = [NoPromise EXCEPT
             !.getPatientActiveGoals =
                 Called(patientId, Settled(ok, getPatientActiveGoals(patientId)))]]
    /\ UNCHANGED <<authVars, session_exercise, goal, goal_exercise_set, now, location>>
    /\ UNCHANGED <<view, error, loading, pc>>
    /\ UNCHANGED legacyVars

\* getPatientAssignedExercises(patientId) is awaited
getPatientAssignedExercises_call(c) ==
    /\ pc[c] = "idle"
    /\ \E patientId \in PatientIds, ok \in BOOLEAN :
         promise' = [promise EXCEPT ![c] = [NoPromise EXCEPT
             !.getPatientAssignedExercises =
                 Called(patientId,
                        Settled(ok, getPatientAssignedExercises(patientId)))]]
    /\ UNCHANGED <<authVars, session_exercise, goal, goal_exercise_set, now, location>>
    /\ UNCHANGED <<view, error, loading, pc>>
    /\ UNCHANGED legacyVars

\* getPatientSessionExercises(patientId) is awaited
getPatientSessionExercises_call(c) ==
    /\ pc[c] = "idle"
    /\ \E patientId \in PatientIds, ok \in BOOLEAN :
         promise' = [promise EXCEPT ![c] = [NoPromise EXCEPT
             !.getPatientSessionExercises =
                 Called(patientId,
                        Settled(ok, getPatientSessionExercises(patientId)))]]
    /\ UNCHANGED <<authVars, session_exercise, goal, goal_exercise_set, now, location>>
    /\ UNCHANGED <<view, error, loading, pc>>
    /\ UNCHANGED legacyVars

\* getPatientStats(patientId) is awaited, any of its three queries failing
getPatientStats_call(c) ==
    /\ pc[c] = "idle"
    /\ \E patientId \in PatientIds, sessError \in BOOLEAN, goalsError \in BOOLEAN,
          exercisesError \in BOOLEAN :
         LET outcome == getPatientStats(patientId, sessError, goalsError,
                                        exercisesError)
         IN promise' = [promise EXCEPT ![c] = [NoPromise EXCEPT
                !.getPatientStats =
                    [state |-> outcome.state, value |-> outcome.value,
                     patientId |-> patientId, sessError |-> sessError]]]
    /\ UNCHANGED <<authVars, session_exercise, goal, goal_exercise_set, now, location>>
    /\ UNCHANGED <<view, error, loading, pc>>
    /\ UNCHANGED legacyVars

\* goals of both patients' sessions, of every status the reads tell apart
ReadGoalRows ==
    GoalRows \cup {[goal_id |-> 3, session_id |-> 4, status |-> "in progress"]}

\* goal_exercise_set rows under the goals of both patients
GoalExerciseRows ==
    {[goal_id |-> 1, exercise_id |-> 1], [goal_id |-> 3, exercise_id |-> 1]}

\* session_exercise rows of both patients, done and not done
ReadExerciseRows ==
    ExerciseRows \cup
    {[session_id |-> 1, exercise_id |-> 2, completed |-> TRUE,
      completion_date |-> 1, notes |-> ""],
     [session_id |-> 2, exercise_id |-> 2, completed |-> TRUE,
      completion_date |-> 1, notes |-> ""],
     [session_id |-> 4, exercise_id |-> 1, completed |-> TRUE,
      completion_date |-> 1, notes |-> ""]}

InitReads ==
    /\ InitLegacy
    /\ db = [therapist |-> TherapistRows, patient |-> PatientRows, parent_carer |-> {}]
    /\ authUsers = {[id |-> r.user_id, email |-> r.email, password |-> PasswordOf(r.username)] :
                       r \in AllRows}
    /\ session \in SUBSET SessionRows
    /\ session_exercise \in SUBSET ReadExerciseRows
    /\ goal \in SUBSET ReadGoalRows
    /\ goal_exercise_set \in SUBSET GoalExerciseRows
    /\ now = 1
    /\ nextId = 5
    /\ userData = [c \in Clients |-> NoData]
    /\ pc = [c \in Clients |-> "idle"]
    /\ req = [c \in Clients |-> NoReq]
    /\ loc = [c \in Clients |-> NoLoc]
    /\ response = [c \in Clients |-> NoResponse]
    /\ error = [c \in Clients |-> ""]
    /\ loading = [c \in Clients |-> FALSE]
    /\ location = [c \in Clients |-> "/"]
    /\ view = [c \in Clients |-> NoView]
    /\ promise = [c \in Clients |-> NoPromise]

NextReads ==
    \E c \in Clients :
        \/ getPatientActiveGoals_call(c)
        \/ getPatientAssignedExercises_call(c)
        \/ getPatientSessionExercises_call(c)
        \/ getPatientStats_call(c)

SpecReads == InitReads /\ [][NextReads]_vars

----------------------------------------------------------------------------
(* Properties *)

\* the registration of session c is finishing in this step
RegisterReturns(c) == pc[c] \in {"reg_signUp", "reg_insert"} /\ pc'[c] = "idle"

\* the login of session c is finishing in this step
LoginReturns(c) ==
    pc[c] \in {"login_therapist", "login_patient", "login_parent_carer", "login_signIn"}
    /\ pc'[c] = "idle"

\* username or email of form f is held by a profile row or by an account other
\* than the one this registration has created itself
UsedByAnother(c, f) ==
    \/ \E r \in AllRows : r.username = f.username \/ r.email = f.email
    \/ \E a \in authUsers : a.email = f.email /\ a.id # loc[c].authUser.id

\* messages of a sign-up the provider turned down for a reason of its own
ProviderFailureMessages == {ProviderRejectMsg, "User creation failed"}

\* C1: a registration whose username or email is already in use fails, with the
\* duplicate message (unless the provider turned the sign-up down for a reason
\* of its own), and leaves no account of its own without a profile row.
C1_DuplicateFailsWithoutOrphan ==
    [][\A c \in Clients :
         (RegisterReturns(c) /\ UsedByAnother(c, req[c])) =>
            /\ ~response'[c].success
            /\ response'[c].message \notin ProviderFailureMessages
                  => response'[c].message = ProviderDuplicateMsg
            /\ (loc[c].authUser # NoUser =>
                  \E r \in UNION {db'[t] : t \in TableNames} :
                      r.user_id = loc[c].authUser.id)]_vars

\* C2: a login that reaches the provider with the email of an account and a
\* wrong password returns exactly what a login with an unknown username returns.
C2_WrongPasswordLikeUnknownUser ==
    [][\A c \in Clients :
         (/\ pc[c] = "login_signIn" /\ pc'[c] = "idle"
          /\ \E a \in authUsers : a.email = loc[c].email /\ a.password # req[c].password
          /\ ~response'[c].success)
         => response'[c] = LoginFailure(InvalidLoginMsg)]_vars

\* a patient row whose user_id is no account id (made by createPatientWithSession)
IsTemporary(r) == ~\E a \in authUsers : a.id = r.user_id

\* C3: when a patient registration succeeds, every patient row that was made by
\* a therapist with the same email carries the id of the new account afterwards.
C3_AutoLinkSetsAccountId ==
    [][\A c \in Clients :
         (pc[c] = "reg_insert" /\ req[c].role = "patient" /\ response'[c].success) =>
            \A r \in db["patient"] :
               (r.email = req[c].email /\ IsTemporary(r)) =>
                  \E r2 \in db'["patient"] :
                      r2.rid = r.rid /\ r2.user_id = loc[c].authUser.id]_vars

\* C4: no two profile rows of the three tables together have the same username.
C4_UsernameUniqueAcrossTables ==
    \A t1 \in TableNames, t2 \in TableNames :
       \A r1 \in db[t1], r2 \in db[t2] :
          r1.username = r2.username => (t1 = t2 /\ r1 = r2)

\* C5: within one role table no two rows have the same user_id.
C5_OneRowPerAccountId ==
    \A t \in TableNames :
       \A r1 \in db[t], r2 \in db[t] : r1.user_id = r2.user_id => r1 = r2

\* a patient registration has succeeded next to a therapist-made row with the
\* same email
C5_Witness ==
    \E c \in Clients :
       /\ response[c].success /\ response[c].message = "Registration Successful!"
       /\ \E r1 \in db["patient"], r2 \in db["patient"] :
             /\ r1.email = r2.email
             /\ r1.user_id = response[c].user.id
             /\ IsTemporary(r2)

\* C6: a register call that returns success went through one successful signUp
\* (one new account, no row touched) and one insert that added exactly one row,
\* keyed by the new account id, to the table named like the chosen role and
\* left the other tables as they were.
C6_SuccessMeansOneAccountOneRow ==
    [][\A c \in Clients :
         /\ (response'[c].success /\ response'[c].message = "Registration Successful!"
               /\ response'[c] # response[c])
            => pc[c] = "reg_insert"
         /\ (pc[c] = "reg_signUp" /\ pc'[c] = "reg_insert") =>
               /\ db' = db
               /\ \E a \in authUsers' \ authUsers :
                     /\ authUsers' = authUsers \cup {a}
                     /\ a.id = loc'[c].authUser.id
                     /\ a.email = req[c].email
                     /\ \A b \in authUsers : b.id # a.id
         /\ (pc[c] = "reg_insert" /\ response'[c].success) =>
               /\ authUsers' = authUsers
               /\ \E a \in authUsers : a.id = loc[c].authUser.id
               /\ response'[c].user.id = loc[c].authUser.id
               /\ \A t \in TableNames :
                     IF t = req[c].role
                     THEN \E r \in db'[t] \ db[t] :
                             /\ db'[t] = db[t] \cup {r}
                             /\ r.user_id = loc[c].authUser.id
                             /\ r.username = req[c].username
                             /\ r.email = req[c].email
                     ELSE db'[t] = db[t]]_vars

\* a registration has returned success and its row is in the table of its role
C6_Witness ==
    \E c \in Clients :
       /\ response[c].success /\ response[c].message = "Registration Successful!"
       /\ location[c] = "/login"
       /\ \E t \in TableNames : \E r \in db[t] :
             r.user_id = response[c].user.id /\ r.user_role = t

\* a form the registration contract rejects: an empty common field, an empty
\* field of the chosen role, a short password or a differing confirmation
InvalidForm(f) ==
    \/ f.username = "" \/ f.email = "" \/ f.password = "" \/ f.confirmPassword = ""
    \/ f.firstName = "" \/ f.lastName = "" \/ f.phoneNumber = ""
    \/ f.dateOfBirth = "" \/ f.role = ""
    \/ (f.role = "therapist"
          /\ (f.clinicName = "" \/ f.yearsOfExperience = "" \/ f.qualification = ""))
    \/ (f.role = "patient"
          /\ (f.therapyStartDate = "" \/ f.preferredContactMethod = ""))
    \/ (f.role = "parent_carer" /\ f.relationshipToPatient = "")
    \/ Len(f.password) < 6
    \/ f.password # f.confirmPassword

\* C7: submitting an invalid registration form ends the handler with an error
\* message, without a call of the identity provider and without any insert.
C7_InvalidFormIsRejected ==
    [][\A c \in Clients :
         (pc[c] = "reg_handleSubmit" /\ InvalidForm(req[c])) =>
            /\ pc'[c] = "idle"
            /\ error'[c] # ""
            /\ authUsers' = authUsers
            /\ db' = db]_vars

\* the rows of table t with username u
Matches(t, u) == {r \in db[t] : r.username = u}

\* the login of session c takes email and role from table t and queries no
\* further table
StopsAt(c, t) ==
    /\ pc'[c] = "login_signIn"
    /\ loc'[c].userRole = t
    /\ loc'[c].email \in {r.email : r \in Matches(t, req[c].username)}

\* C8: login asks therapist, patient, parent_carer in this order and stops at
\* the first table that holds the username, taking email and role from it.
C8_FirstTableWithUsernameWins ==
    [][\A c \in Clients :
         /\ pc[c] = "login_therapist" =>
               IF Matches("therapist", req[c].username) # {}
               THEN StopsAt(c, "therapist")
               ELSE pc'[c] = "login_patient"
         /\ pc[c] = "login_patient" =>
               IF Matches("patient", req[c].username) # {}
               THEN StopsAt(c, "patient")
               ELSE pc'[c] = "login_parent_carer"
         /\ pc[c] = "login_parent_carer" =>
               IF Matches("parent_carer", req[c].username) # {}
               THEN StopsAt(c, "parent_carer")
               ELSE pc'[c] = "idle" /\ ~response'[c].success]_vars

\* account a was registered: a profile row is keyed by its id
Registered(a) == \E r \in AllRows : r.user_id = a.id

\* C9: a login with the email of a registered account in the identifier field
\* and the account's password succeeds.
C9_LoginWithEmailSucceeds ==
    [][\A c \in Clients :
         (/\ LoginReturns(c)
          /\ \E a \in authUsers :
                /\ Registered(a)
                /\ a.email = req[c].username
                /\ a.password = req[c].password)
         => response'[c].success]_vars

\* C10: a login with the username and password of a registration that
\* succeeded with role R succeeds and ends at the dashboard path of R.
C10_RegisterThenLoginReachesDashboard ==
    [][\A c \in Clients : \A R \in Roles :
         (/\ LoginReturns(c)
          /\ \E a \in authUsers : \E r \in db[R] :
                /\ r.user_id = a.id
                /\ r.username = req[c].username
                /\ a.password = req[c].password)
         => /\ response'[c].success
            /\ location'[c] = roleToPath(R)]_vars

Target(c) == MatchingExercises(req[c].sessionId, req[c].exerciseId)

\* C12: markExerciseComplete on an existing row, completed before or not,
\* succeeds whenever the store answers: the row is completed, its
\* completion_date is the instant of this call, no other row changes and the
\* success message is shown.  A second call therefore succeeds like the first
\* and leaves the timestamp of the second call.
C12_MarkCompleteIdempotent ==
    [][\A c \in Clients :
         (pc[c] = "mark_update" /\ pc'[c] # pc[c] /\ Target(c) # {}) =>
            \/ /\ error'[c] = StoreErrorMsg
               /\ session_exercise' = session_exercise
            \/ /\ error'[c] = error[c]
               /\ view'[c].successMessage = "Exercise marked as complete!"
               /\ session_exercise' =
                     (session_exercise \ Target(c))
                     \cup {[x EXCEPT !.completed = TRUE, !.completion_date = now] :
                              x \in Target(c)}]_vars

\* the second call on a row has answered: the list on screen still shows the
\* row as the first call completed it, the table has the later timestamp
C12_Witness ==
    \E c \in Clients :
       /\ pc[c] = "mark_refresh"
       /\ view[c].successMessage = "Exercise marked as complete!"
       /\ \E x \in Target(c) : \E i \in 1..Len(view[c].exercises) :
             LET shown == view[c].exercises[i] IN
             /\ shown.session_id = x.session_id /\ shown.exercise_id = x.exercise_id
             /\ shown.completed /\ x.completed
             /\ shown.completion_date < x.completion_date
             /\ x.completion_date = now

\* C13: markExerciseComplete for a pair of ids that no session_exercise row
\* has fails: handleMarkComplete ends with an error message, shows no success
\* message and no row of the table is changed.
C13_MarkCompleteWithoutRowFails ==
    [][\A c \in Clients :
         (pc[c] = "mark_update" /\ pc'[c] # pc[c] /\ Target(c) = {}) =>
            /\ pc'[c] = "idle"
            /\ error'[c] \in {SingleRowMsg, StoreErrorMsg}
            /\ view'[c] = view[c]
            /\ session_exercise' = session_exercise]_vars

\* handleMarkComplete has ended with the error of .single() and no success
\* message
C13_Witness ==
    \E c \in Clients :
       /\ pc[c] = "idle"
       /\ view[c].mounted = "PatientGoalsProgress"
       /\ error[c] = SingleRowMsg
       /\ view[c].successMessage = ""
       /\ \A x \in session_exercise : ~x.completed

\* C14: when one of the two reads of loadDashboardData has failed and the
\* other has succeeded, the result of the one that succeeded is in the view.
C14_OneReadFailingKeepsTheOther ==
    \A c \in Clients :
       (view[c].mounted = "PatientDashboard" /\ pc[c] = "idle") =>
          /\ (/\ promise[c].getPatientTherapists.state = "rejected"
              /\ promise[c].getPatientUpcomingSessions.state = "fulfilled")
             => view[c].upcomingSessions = promise[c].getPatientUpcomingSessions.value
          /\ (/\ promise[c].getPatientUpcomingSessions.state = "rejected"
              /\ promise[c].getPatientTherapists.state = "fulfilled")
             => view[c].therapists = promise[c].getPatientTherapists.value

\* C15: when getPatientProfile gives no profile, loadDashboardData ends with
\* the message 'Patient profile not found', issues neither getPatientTherapists
\* nor getPatientUpcomingSessions and leaves the view as it was; in
\* particular so when no patient row has the user's id.
C15_NoProfileAbortsRead ==
    [][\A c \in Clients :
         (pc[c] = "pd_profile" /\ pc'[c] # pc[c]) =>
            LET userId == OrElseId(userData[c].user_id, userData[c].id)
                aborted ==
                   /\ pc'[c] = "idle"
                   /\ error'[c] = ProfileNotFoundMsg
                   /\ promise'[c].getPatientTherapists.state = "none"
                   /\ promise'[c].getPatientUpcomingSessions.state = "none"
                   /\ view'[c] = view[c]
            IN /\ aborted \/ (/\ pc'[c] = "pd_reads"
                            /\ view'[c].profile \in db["patient"]
                            /\ view'[c].profile.user_id = userId)
               /\ (~\E r \in db["patient"] : r.user_id = userId) => aborted
               /\ view'[c].profile = NoRow => aborted]_vars

\* loadDashboardData has ended without a profile and without the two reads
C15_Witness ==
    \E c \in Clients :
       /\ pc[c] = "idle"
       /\ view[c].mounted = "PatientDashboard"
       /\ error[c] = ProfileNotFoundMsg
       /\ ~loading[c]
       /\ view[c].profile = NoRow
       /\ promise[c] = NoPromise
       /\ \E s \in session : s.patient_id = userData[c].user_id

\* the id the therapist views of session c query with
TherapistOf(c) == OrElseId(userData[c].user_id, userData[c].id)

\* therapist T has no session row
NoSessionOf(T) == ~\E s \in session : s.therapist_id = T

\* C16: for a therapist without any session row getTherapistSessions and
\* getTherapistPatients give the empty list, and whenever the store answers
\* their queries loadSessions and loadPatients end with an empty list, no
\* error message and loading switched off.
C16_NoSessionsIsNoError ==
    [][\A c \in Clients :
         (pc[c] \in {"td_sessions", "tp_patients"} /\ pc'[c] # pc[c]
          /\ NoSessionOf(TherapistOf(c))) =>
            /\ getTherapistSessions(TherapistOf(c), DefaultLimit) = <<>>
            /\ getTherapistPatients(TherapistOf(c)) = <<>>
            /\ pc'[c] = "idle"
            /\ \/ error'[c] = StoreErrorMsg /\ view'[c] = view[c]
               \/ /\ error'[c] = ""
                  /\ ~loading'[c]
                  /\ view'[c].sessions = <<>>
                  /\ view'[c].patients = <<>>]_vars

\* the dashboard of a therapist without sessions has loaded, next to sessions
\* of another therapist
C16_Witness ==
    \E c \in Clients :
       /\ pc[c] = "idle"
       /\ view[c].mounted = "TherapistDashboard"
       /\ userData[c].role = "therapist"
       /\ NoSessionOf(TherapistOf(c))
       /\ session # {}
       /\ view[c].sessions = <<>>
       /\ error[c] = "" /\ ~loading[c]

\* the number of positions of seq that hold r
Occurrences(seq, r) == Cardinality({i \in 1..Len(seq) : seq[i] = r})

\* patient row r has a session with therapist T
HasSessionWith(r, T) ==
    \E s \in session : s.therapist_id = T /\ s.patient_id = r.user_id

\* C17: for every therapist T, getTherapistPatients(T) holds every patient
\* row that has a session with T exactly once and no other row; sessions
\* without a patient add nothing; loadPatients stores this list.
C17_DistinctPatientsOfTherapist ==
    /\ \A T \in {r.user_id : r \in db["therapist"]} :
          LET patients == getTherapistPatients(T) IN
          /\ \A r \in db["patient"] :
                Occurrences(patients, r) = IF HasSessionWith(r, T) THEN 1 ELSE 0
          /\ Range(patients) \subseteq db["patient"]
    /\ \A c \in Clients :
          (view[c].mounted = "TherapistPatients" /\ pc[c] = "idle" /\ error[c] = "") =>
             view[c].patients = getTherapistPatients(TherapistOf(c))

\* loadPatients has stored one patient for a therapist who has two sessions
\* with that patient and one without a patient, while another therapist has a
\* session with a second patient
C17_Witness ==
    \E c \in Clients :
       /\ pc[c] = "idle"
       /\ view[c].mounted = "TherapistPatients"
       /\ Len(view[c].patients) = 1
       /\ Cardinality({s \in session : /\ s.therapist_id = TherapistOf(c)
                                        /\ s.patient_id = view[c].patients[1].user_id}) = 2
       /\ \E s \in session : s.therapist_id = TherapistOf(c) /\ s.patient_id = 0
       /\ \E s \in session : \E r \in db["patient"] :
             /\ s.therapist_id # TherapistOf(c)
             /\ s.patient_id = r.user_id
             /\ ~HasSessionWith(r, TherapistOf(c))

\* C18: when the add-patient action returns after it has inserted a patient
\* row, with success or with a failure, the session table has a row that
\* joins this patient to the acting therapist.
C18_AddedPatientHasSession ==
    [][\A c \in Clients :
         (pc[c] = "add_session" /\ pc'[c] = "idle") =>
            /\ loc[c].fullUserData \in db'["patient"]
            /\ \E s \in session' :
                  /\ s.patient_id = loc[c].fullUserData.user_id
                  /\ s.therapist_id = TherapistOf(c)]_vars

\* the user object that Login has stored for session c has role r
LoggedInAs(c, r) == userData[c] # NoData /\ userData[c].role = r

\* the step has rendered the component and its effect has not navigated away
Admits(c, component) == view'[c].mounted = component /\ location'[c] = location[c]

\* C19: with the user object of a therapist login in local storage, the
\* mount effects of TherapistDashboard, TherapistPatients, PatientDetails and
\* AddPatient let the user in; with that of a patient login, those of
\* PatientDashboard and PatientGoalsProgress do.
C19_ViewsAdmitLoggedInRole ==
    [][\A c \in Clients :
         /\ LoggedInAs(c, "therapist") =>
               /\ TherapistDashboard_mount(c) => Admits(c, "TherapistDashboard")
               /\ TherapistPatients_mount(c) => Admits(c, "TherapistPatients")
               /\ PatientDetails_mount(c) => Admits(c, "PatientDetails")
               /\ AddPatient_mount(c) => Admits(c, "AddPatient")
         /\ LoggedInAs(c, "patient") =>
               /\ PatientDashboard_mount(c) => Admits(c, "PatientDashboard")
               /\ PatientGoalsProgress_mount(c) => Admits(c, "PatientGoalsProgress")]_vars

\* x and y are the same session_exercise row (same key)
SameExercise(x, y) == x.session_id = y.session_id /\ x.exercise_id = y.exercise_id

\* every row of every table is still there after the step
NoRowDeleted ==
    /\ \A t \in TableNames : \A r \in db[t] : \E r2 \in db'[t] : r2.rid = r.rid
    /\ \A a \in authUsers : a \in authUsers'
    /\ \A s \in session : s \in session'
    /\ \A g \in goal : g \in goal'
    /\ \A x \in session_exercise : \E y \in session_exercise' : SameExercise(x, y)

\* a profile row the step has changed is a patient row whose user_id the
\* auto-link of a registration has set
ProfileRowsChangeByAutoLinkOnly ==
    \A t \in TableNames : \A r \in db[t] \ db'[t] :
       /\ t = "patient"
       /\ \E c \in Clients : register_insert(c)
       /\ \E r2 \in db'[t] : r2 = [r EXCEPT !.user_id = r2.user_id]

\* row x has become y through markExerciseComplete: completion fields only
ByMarkComplete(x, y) ==
    /\ \E c \in Clients : markExerciseComplete_answer(c)
    /\ y = [x EXCEPT !.completed = TRUE, !.completion_date = y.completion_date]

\* row x has become y through addExerciseNotes: notes only
ByAddNotes(x, y) ==
    /\ \E c \in Clients : addExerciseNotes(c)
    /\ y = [x EXCEPT !.notes = y.notes]

\* C20 as stated: no step deletes a row, and a step that changes an existing
\* row is the completion of markExerciseComplete or the auto-link update.
C20_OnlyCompletionAndAutoLinkModifyRows ==
    [][/\ NoRowDeleted
       /\ ProfileRowsChangeByAutoLinkOnly
       /\ \A x \in session_exercise \ session_exercise' :
             \E y \in session_exercise' : SameExercise(x, y) /\ ByMarkComplete(x, y)]_vars

\* C20 amended: no step deletes a row, and a step that changes an existing row
\* is the completion of markExerciseComplete (completion fields only), the
\* notes update of addExerciseNotes (notes only) or the auto-link update.
C20_OnlyCompletionNotesAndAutoLinkModifyRows ==
    [][/\ NoRowDeleted
       /\ ProfileRowsChangeByAutoLinkOnly
       /\ \A x \in session_exercise \ session_exercise' :
             \E y \in session_exercise' :
                SameExercise(x, y) /\ (ByMarkComplete(x, y) \/ ByAddNotes(x, y))]_vars

\* a row has been given notes by addExerciseNotes and completed by
\* markExerciseComplete, the notes still in place
C20_Witness ==
    \E x \in session_exercise : x.notes \in Notes /\ x.completed /\ x.completion_date = now

----------------------------------------------------------------------------
(* Legacy backend: tokens *)

Bearer(t) == [scheme |-> "Bearer", token |-> t]

\* C21: a bearer token issued by POST /register or POST /login is accepted
\* by GET /verify, with the data of the user it was issued to, at every
\* time less than 7 days after its issue, and rejected with 401 at every
\* time more than 7 days after it.
C21_TokenValidSevenDays ==
    \A r \in Requests :
        token[r] # NoToken =>
            LET p == token[r].payload
                answer == verify(Bearer(token[r]), clock)
            IN  /\ clock - p.iat < ExpiresIn =>
                       /\ answer.status = 200
                       /\ answer.data.user =
                              [id |-> p.id, username |-> p.username,
                               email |-> p.email, role |-> p.role]
                /\ clock - p.iat > ExpiresIn => answer.status = 401

\* GET /verify has refused, more than 7 days after its issue, the token
\* that a registration returned
C21_Witness ==
    /\ token["r1"] # NoToken
    /\ token["r1"].payload.username = "sam"
    /\ clock - token["r1"].payload.iat > ExpiresIn
    /\ handler["r1"].body = Bearer(token["r1"])
    /\ res["r1"] = Json(401, "Invalid token", <<>>)

\* GET /verify has accepted the token six days after its issue
C21_WitnessAccepted ==
    /\ token["r1"] # NoToken
    /\ clock - token["r1"].payload.iat = ExpiresIn - 1
    /\ handler["r1"].body = Bearer(token["r1"])
    /\ res["r1"] = Json(200, "", [user |-> UserDataOf(users[token["r1"].payload.id])])

----------------------------------------------------------------------------
(* Legacy backend: concurrent registrations *)

\* C23: under every interleaving of concurrent POST /register requests, no
\* two stored users share a username or an email.
C23_ConcurrentRegisterKeepsUnique ==
    \A i, j \in 1..Len(users) :
        i # j => /\ users[i].username # users[j].username
                 /\ users[i].email # users[j].email

----------------------------------------------------------------------------
(* Legacy backend: login answers *)

IsLoginBody(body) == DOMAIN body = {"username", "password"}

\* the password is not the one the account was stored with
WrongPassword(user, password) ==
    IF user.password = DemoHash THEN password # "password123"
    ELSE user.password # bcrypt_hash(password)

\* C24: POST /login answers an unknown username or email and a known
\* username with a wrong password with the identical response, 401
\* 'Invalid username or password'.
C24_LoginFailuresIdentical ==
    \A r \in Requests :
        /\ handler[r].pc = "idle"
        /\ IsLoginBody(handler[r].body)
        /\ handler[r].body.username # ""
        /\ \/ \A i \in 1..Len(users) :
                   /\ users[i].username # handler[r].body.username
                   /\ users[i].email # handler[r].body.username
           \/ /\ handler[r].user # NoLegacyUser
              /\ WrongPassword(handler[r].user, handler[r].body.password)
        => res[r] = [status |-> 401, message |-> "Invalid username or password",
                     data |-> <<>>, next |-> 0]

\* both cases have been answered: a caller with an unknown name, another
\* with the name of a registered account and a wrong password
C24_Witness ==
    /\ handler["r1"].pc = "idle" /\ IsLoginBody(handler["r1"].body)
    /\ handler["r1"].user = NoLegacyUser
    /\ handler["r1"].body.username = "sam"
    /\ res["r1"].status = 401
    /\ handler["r2"].pc = "idle" /\ IsLoginBody(handler["r2"].body)
    /\ handler["r2"].user.id = 1
    /\ handler["r2"].body.password = "letmein"
    /\ res["r2"] = res["r1"]

----------------------------------------------------------------------------
(* Legacy backend: middleware *)

\* the header is 'Bearer <token>' with a token signed by the backend that
\* has not expired at instant `at`
CarriesValidToken(authHeader, at) ==
    /\ authHeader.scheme = "Bearer"
    /\ authHeader.token.payload # <<>>
    /\ authHeader.token.secret = JWT_SECRET
    /\ at < authHeader.token.payload.exp

\* C25: a request passes authenticateToken and then authorizeRole(roles)
\* (both call next) only if its Authorization header is 'Bearer <token>',
\* the token verifies and the decoded role is one of roles; otherwise the
\* route handler is not reached and the response is 401 for a missing or
\* malformed header or a missing user, 403 for an invalid or expired token
\* or a role that is not in roles.
C25_MiddlewareAdmitsValidRoleOnly ==
    \A r \in Requests : \A authHeader \in Headers(r) : \A roles \in MiddlewareRoles :
        LET out == Protected(authHeader, roles, TRUE, clock)
            valid == CarriesValidToken(authHeader, clock)
        IN  /\ out.next = 2 => valid /\ authHeader.token.payload.role \in roles
            /\ out.next # 2 =>
                   /\ out.next = (IF valid THEN 1 ELSE 0)
                   /\ out.status = (IF authHeader.scheme # "Bearer" THEN 401 ELSE 403)
            /\ valid /\ authHeader.token.payload.role \in roles
                   => out.next = 2 /\ out.status = 0
            /\ Protected(authHeader, roles, FALSE, clock) =
                   [status |-> 401, message |-> "Access denied. User not authenticated.",
                    data |-> <<>>, next |-> 0]

IsProtectedBody(body) == DOMAIN body = {"authHeader", "roles", "authenticated"}

\* a request with the token of a login has passed both middlewares
C25_Witness ==
    /\ handler["r1"].pc = "idle" /\ IsProtectedBody(handler["r1"].body)
    /\ handler["r1"].body.authenticated
    /\ handler["r1"].body.authHeader = Bearer(token["r1"])
    /\ handler["r1"].body.roles = {"therapist"}
    /\ res["r1"].next = 2
    /\ clock > 0

\* a request with an expired token has been answered 403
C25_WitnessExpired ==
    /\ handler["r1"].pc = "idle" /\ IsProtectedBody(handler["r1"].body)
    /\ handler["r1"].body.authenticated
    /\ handler["r1"].body.authHeader = Bearer(token["r1"])
    /\ token["r1"] # NoToken
    /\ res["r1"] = Json(403, "Invalid or expired token", <<>>)

----------------------------------------------------------------------------
(* Legacy backend: passwords *)

\* the fields a response body carries, of its user object and of the
\* payload of its token
ResponseFields(answer) ==
    IF answer.data = <<>> THEN {}
    ELSE DOMAIN answer.data.user
         \cup (IF "token" \in DOMAIN answer.data
               THEN DOMAIN answer.data.token.payload ELSE {})

\* C26: no response of register, login or verify contains the password or
\* its hash, and every user added by register is stored with the hash of
\* the submitted password, never with the password itself.
C26_PasswordNeverReturnedNorStoredPlain ==
    /\ \A r \in Requests :
           ~IsProtectedBody(handler[r].body) =>
           /\ "password" \notin ResponseFields(res[r])
           /\ res[r].data # <<>> =>
                  \E i \in 1..Len(users) :
                      res[r].data.user = [id |-> users[i].id, username |-> users[i].username,
                                          email |-> users[i].email, role |-> users[i].role]
    /\ \A i \in (Len(DemoUsers) + 1)..Len(users) :
           users[i].password = [bcrypt |-> "letmein"]

\* a registration has been answered 201 with token and user
C26_Witness ==
    /\ res["r1"].status = 201
    /\ DOMAIN res["r1"].data = {"token", "user"}
    /\ handler["r1"].body.password = "letmein"
    /\ Len(users) = 3
    /\ users[3].password = bcrypt_hash(handler["r1"].body.password)

----------------------------------------------------------------------------
(* Flows finish *)

RegisterSteps == {"reg_handleSubmit", "reg_signUp", "reg_insert"}
LoginSteps == {"login_therapist", "login_patient", "login_parent_carer", "login_signIn"}

\* what a flow that ends in this step has achieved, when it has
Achieved(c) ==
    IF pc[c] \in RegisterSteps \cup LoginSteps THEN response'[c].success
    ELSE IF pc[c] = "add_session" THEN session' # session
    ELSE IF pc[c] = "td_sessions"
    THEN view'[c].sessions =
             getTherapistSessions(OrElseId(userData[c].user_id, userData[c].id),
                                  DefaultLimit)
    ELSE FALSE

----------------------------------------------------------------------------
(* Logout *)

\* where the gate of each protected component sends the browser
Gates(c) ==
    {Gate_TherapistDashboard(c), Gate_TherapistPatients(c), Gate_PatientDetails(c),
     Gate_AddPatient(c), Gate_PatientDashboard(c), Gate_PatientGoalsProgress(c)}

AnyLogout(c) ==
    \/ TherapistDashboard_handleLogout(c)
    \/ TherapistPatients_handleLogout(c)
    \/ PatientDetails_handleLogout(c)
    \/ AddPatient_handleLogout(c)
    \/ PatientDashboard_handleLogout(c)
    \/ PatientGoalsProgress_handleLogout(c)

----------------------------------------------------------------------------
(* Redirects *)

SessionOfPatient(sessionId, patientId) ==
    \E s \in session : s.session_id = sessionId /\ s.patient_id = patientId

\* C29: every row a fulfilled getPatientActiveGoals, getPatientAssignedExercises
\* or getPatientSessionExercises returns for patient P hangs, directly or
\* through its goal, on a session whose patient_id is P, and the goals
\* getPatientActiveGoals returns all have status 'active' or 'in progress'.
C29_ReadsReturnOnlyOwnRows ==
    \A c \in Clients :
        LET goals == promise[c].getPatientActiveGoals
            assigned == promise[c].getPatientAssignedExercises
            exercises == promise[c].getPatientSessionExercises
        IN /\ goals.state = "fulfilled" =>
                \A g \in Range(goals.value) :
                    /\ g \in goal
                    /\ SessionOfPatient(g.session_id, goals.patientId)
                    /\ g.status \in {"active", "in progress"}
           /\ assigned.state = "fulfilled" =>
                \A x \in Range(assigned.value) :
                    /\ x \in goal_exercise_set
                    /\ \E g \in goal :
                          /\ g.goal_id = x.goal_id
                          /\ SessionOfPatient(g.session_id, assigned.patientId)
           /\ exercises.state = "fulfilled" =>
                \A x \in Range(exercises.value) :
                    /\ x \in session_exercise
                    /\ SessionOfPatient(x.session_id, exercises.patientId)

\* getPatientAssignedExercises has returned rows for a patient while the store
\* holds an exercise set under a goal of another patient's session
C29_Witness ==
    \E c \in Clients :
        LET assigned == promise[c].getPatientAssignedExercises
        IN /\ assigned.state = "fulfilled"
           /\ Len(assigned.value) > 0
           /\ \E x \in goal_exercise_set, g \in goal, s \in session :
                 /\ g.goal_id = x.goal_id
                 /\ s.session_id = g.session_id
                 /\ s.patient_id \in PatientIds \ {assigned.patientId}

\* getPatientActiveGoals has returned a goal and left out a completed goal of
\* the same patient and a goal of another patient
C29_WitnessGoals ==
    \E c \in Clients :
        LET goals == promise[c].getPatientActiveGoals
        IN /\ goals.state = "fulfilled"
           /\ Len(goals.value) > 0
           /\ \E g \in goal :
                 /\ g.status = "completed"
                 /\ SessionOfPatient(g.session_id, goals.patientId)
           /\ \E g \in goal, q \in PatientIds \ {goals.patientId} :
                 SessionOfPatient(g.session_id, q)

\* getPatientSessionExercises has returned rows and left out a row of another
\* patient's session
C29_WitnessExercises ==
    \E c \in Clients :
        LET exercises == promise[c].getPatientSessionExercises
        IN /\ exercises.state = "fulfilled"
           /\ Len(exercises.value) > 0
           /\ \E x \in session_exercise, q \in PatientIds \ {exercises.patientId} :
                 SessionOfPatient(x.session_id, q)

\* C30: an awaited getPatientStats is always fulfilled, never rejected; its
\* counts satisfy 0 <= completedGoals <= totalGoals and 0 <= completedExercises
\* <= totalExercises, both completion rates are integers in 0..100 and are 0
\* when their total is 0, and every field is 0 when the session query failed.
C30_StatsNeverThrowAndStayInRange ==
    \A c \in Clients :
        LET stats == promise[c].getPatientStats
        IN stats.state # "none" =>
             /\ stats.state = "fulfilled"
             /\ 0 <= stats.value.completedGoals
             /\ stats.value.completedGoals <= stats.value.totalGoals
             /\ 0 <= stats.value.completedExercises
             /\ stats.value.completedExercises <= stats.value.totalExercises
             /\ stats.value.goalCompletionRate \in 0..100
             /\ stats.value.exerciseCompletionRate \in 0..100
             /\ stats.value.totalGoals = 0 => stats.value.goalCompletionRate = 0
             /\ stats.value.totalExercises = 0 =>
                    stats.value.exerciseCompletionRate = 0
             /\ stats.sessError =>
                    \A f \in DOMAIN stats.value : stats.value[f] = 0

\* getPatientStats has returned a rate that had to be rounded: two of three
\* exercises done, next to a goal rate of one of two
C30_Witness ==
    \E c \in Clients :
        LET stats == promise[c].getPatientStats
        IN /\ stats.state = "fulfilled"
           /\ stats.value.totalExercises = 3
           /\ stats.value.completedExercises = 2
           /\ stats.value.exerciseCompletionRate = 67
           /\ stats.value.totalGoals = 2
           /\ stats.value.goalCompletionRate = 50

\* the session query of getPatientStats has failed for a patient who has
\* sessions, goals and exercises in the store, and zeros have come back
C30_WitnessSessionError ==
    \E c \in Clients :
        LET stats == promise[c].getPatientStats
        IN /\ stats.state = "fulfilled"
           /\ stats.sessError
           /\ stats.value = ZeroStats
           /\ Len(getPatientSessionExercises(stats.patientId)) > 0
           /\ \E g \in goal : SessionOfPatient(g.session_id, stats.patientId)

\* the goal query of getPatientStats has failed and the exercise query has
\* not: no goal is counted, the exercises are
C30_WitnessGoalsError ==
    \E c \in Clients :
        LET stats == promise[c].getPatientStats
        IN /\ stats.state = "fulfilled"
           /\ ~stats.sessError
           /\ stats.value.totalGoals = 0
           /\ stats.value.totalExercises > 0
           /\ \E g \in goal : SessionOfPatient(g.session_id, stats.patientId)

====
